---- MODULE Spec2Model ----
(***************************************************************************)
(* Request gate of the DigiPin API: the global per-minute limiter          *)
(* registered in server.ts, the apiKeyAuth and tieredRateLimit preHandler  *)
(* hooks, the route handlers of geocode / batch / usage with their         *)
(* try/finally logRequest, and the api_keys / request_logs tables.         *)
(*                                                                         *)
(* Time is the clock Date.now(), in seconds.  A request occupies a slot    *)
(* from arrival to completion; request_logs[s] holds the request_logs rows *)
(* written for the request in slot s (rows of requests that left their     *)
(* slot are not kept: nothing in the gate reads the table back).           *)
(***************************************************************************)
EXTENDS Integers, Sequences, FiniteSets, TLC

\* ------------------------------------------------------------------ bounds
NumSlots == 2
MaxRequests == 2
MaxTicks == 2
MaxLimiterTicks == 3
MaxUsage == 3
MaxOver == 1
MaxCalls == 2
MaxValidateCalls == 3
MaxCacheTicks == 3
MaxDurableCalls == 2
MaxDurableTicks == 2
MaxBatch == 2
MaxOverlapTicks == 1
MaxCandidates == 5
MaxItemsReturned == 3
MaxServiceCalls == 1

\* ------------------------------------------------------- program constants
FreeRequests == 10
PaidRequests == 100
EnterpriseRequests == 1000
WindowMs == 60000
GlobalMax == 100
BurstFree == 5
BurstPaid == 50
BurstEnterprise == 100
MaxItems == 100
NULL == 0
GeocodeTtlMinutes == 60
ValidateTtlMinutes == 30
DurableTtlMinutes == 60
MinCodeLen == 6
MaxCodeLen == 20
MaxAlternatives == 3

\* the clock counts seconds: Date.now() \div 1000
Window == WindowMs \div 1000
TickLen == Window \div 2
Month == 30 * 24 * 60 * 60
\* the clock step of the orchestrator's specifications
CacheTick == ValidateTtlMinutes * 60

Slots == 1..NumSlots
KeyIds == {1, 2}
MonthlyLimits == {1}
\* secret presented by the owner of key id
SecretOf(id) == IF id = 1 THEN "k1" ELSE "k2"
NoAuth == [scheme |-> "none", token |-> ""]
Bearer(k) == [scheme |-> "Bearer", token |-> k]
\* an Authorization header that does not start with "Bearer "
Basic(k) == [scheme |-> "Basic", token |-> k]
Client(auth, xkey) == [authorization |-> auth, xApiKey |-> xkey]
VARIABLES now, api_keys, request_logs, rateLimitStore, globalStore, req,
          admitted, served,
          cache, cacheExpiry, digipin_cache, decoder, last, fault

\* the request gate's state apart from the clock, and the orchestrator's state
gateVars == <<api_keys, request_logs, rateLimitStore, globalStore, req,
              admitted, served>>
modelVars == <<cache, cacheExpiry, digipin_cache, decoder, last, fault>>

vars == <<now, api_keys, request_logs, rateLimitStore, globalStore, req,
          admitted, served, cache, cacheExpiry, digipin_cache, decoder, last,
          fault>>

\* fault names the database statement that throws when it is run next, if
\* any ("none"): the INSERT of logRequest ("logInsert"), the UPDATE of
\* logRequest ("usageUpdate"), or the INSERT OR REPLACE of
\* storeInDatabaseCache ("cacheWrite")

\* -------------------------------------------------------------- helpers
hashApiKey(apiKey) == <<"sha256", apiKey>>

DEFAULT_RATE_LIMITS(tier) ==
  IF tier = "free" THEN [requests |-> FreeRequests, windowMs |-> Window]
  ELSE IF tier = "paid" THEN [requests |-> PaidRequests, windowMs |-> Window]
  ELSE [requests |-> EnterpriseRequests, windowMs |-> Window]

burstLimits(tier) ==
  IF tier = "free" THEN BurstFree
  ELSE IF tier = "paid" THEN BurstPaid
  ELSE BurstEnterprise

\* Math.max and Math.min
Max(a, b) == IF a > b THEN a ELSE b
Min(a, b) == IF a < b THEN a ELSE b

\* Map.set and Map.delete on a function whose domain is the set of keys
MapSet(m, k, v) == [x \in DOMAIN m \cup {k} |-> IF x = k THEN v ELSE m[x]]
EmptyMap == [x \in {} |-> x]
MapDelete(m, ks) == [x \in DOMAIN m \ ks |-> m[x]]

extractApiKey_headerFirst(r) ==
  IF r.xApiKey # "" THEN r.xApiKey
  ELSE IF r.authorization.scheme = "Bearer" THEN r.authorization.token
  ELSE ""

extractApiKey(r) ==
  IF r.authorization.scheme = "Bearer" THEN r.authorization.token
  ELSE r.xApiKey

keyGenerator(r) == IF r.xApiKey # "" THEN r.xApiKey ELSE ("ip")

getRateLimitKey(id) == <<"api_key", id>>

lookupActiveKey_anyKey(keys, h) ==
  {id \in KeyIds : keys[id].key_hash = h}

\* SELECT ... WHERE key_hash = ? AND is_active = 1
lookupActiveKey(keys, h) ==
  {id \in KeyIds : keys[id].key_hash = h /\ keys[id].is_active}

\* reply.send: only the first send reaches the client
send(r, st, c) ==
  IF r.sendAttempts = 0
  THEN [r EXCEPT !.status = st, !.code = c, !.sendAttempts = 1]
  ELSE [r EXCEPT !.sendAttempts = @ + 1]

\* request_logs.api_key_id INTEGER NOT NULL
request_logs_accepts(row) == row.api_key_id # NULL

\* logStmt.run: the INSERT throws when the row is refused or the database
\* fails
logInsertThrows(row) == ~request_logs_accepts(row) \/ fault = "logInsert"

\* logRequest: the rows of slot s after the call
logRequestRows(logs, s, apiKeyId, statusCode) ==
  LET row == [api_key_id |-> apiKeyId, response_status |-> statusCode]
  IN IF logInsertThrows(row) THEN logs
     ELSE [logs EXCEPT ![s] = Append(@, row)]

logRequestUsage_below200(keys, apiKeyId, statusCode) ==
  IF apiKeyId # NULL /\ statusCode < 200
  THEN [keys EXCEPT ![apiKeyId].current_usage = @ + 1]
  ELSE keys

\* logRequest: the api_keys table after the call
logRequestUsage(keys, apiKeyId, statusCode) ==
  LET row == [api_key_id |-> apiKeyId, response_status |-> statusCode]
  IN IF /\ ~logInsertThrows(row) /\ apiKeyId # NULL /\ statusCode < 400
        /\ fault # "usageUpdate"
     THEN [keys EXCEPT ![apiKeyId].current_usage = @ + 1]
     ELSE keys

logRequestThrew_uncaught(apiKeyId, statusCode) ==
  \/ logInsertThrows([api_key_id |-> apiKeyId, response_status |-> statusCode])
  \/ apiKeyId # NULL /\ statusCode < 400 /\ fault = "usageUpdate"

\* logRequest: whether an error leaves the call; its body is one
\* try { ... } catch (error) { console.error(...) }
logRequestThrew(apiKeyId, statusCode) == FALSE

\* apiKeyAuth awaits logRequest before it replies, inside its own try/catch
authReply(r, apiKeyId, st, c) ==
  IF logRequestThrew(apiKeyId, st) THEN send(r, 500, "AUTH_ERROR")
  ELSE send(r, st, c)

\* a handler awaits logRequest in its finally block, after it replied; an
\* error leaving the handler is answered by the framework
afterLog(r, apiKeyId, statusCode) ==
  IF logRequestThrew(apiKeyId, statusCode)
  THEN send(r, 500, "Internal Server Error")
  ELSE r

IdleReq ==
  [pc |-> "idle", authorization |-> NoAuth, xApiKey |-> "",
   endpoint |-> "none", addresses |-> 0, addressOk |-> FALSE,
   apiKeyInfo |-> NULL, statusCode |-> 0, status |-> 0, code |-> "",
   sendAttempts |-> 0, reachedLimiter |-> FALSE, remaining |-> 0,
   invoked |-> "none", rolledFrom |-> -1,
   rateLimit |-> [remaining |-> -1, resetTime |-> -1]]

UsageRoom(id) == api_keys[id].current_usage < MaxUsage

\* ------------------------------------------------- orchestrator: data
\* a string is the sequence of its characters
Rep(c, n) == [i \in 1..n |-> c]

RECURSIVE trimStart(_)
trimStart(str) ==
  IF str = <<>> THEN str
  ELSE IF Head(str) = " " THEN trimStart(Tail(str)) ELSE str

RECURSIVE trimEnd(_)
trimEnd(str) ==
  IF str = <<>> THEN str
  ELSE IF str[Len(str)] = " " THEN trimEnd(SubSeq(str, 1, Len(str) - 1))
  ELSE str

\* String.prototype.trim
trim(str) == trimEnd(trimStart(str))

\* characters of the class [A-Za-z0-9\-_], and two outside it
CodeChars == {"A", "B", "Z", "a", "9", "-", "_"}
Code6 == <<"A", "-", "_", "9", "a", "Z">>
Code20 == Rep("A", MaxCodeLen)
DecodableCodes == {Code6, Code20}
DefaultLibrary == [c \in DecodableCodes |-> "ok"]

\* coordinates, named by what DigiPin.getDIGIPINFromLatLon makes of them
Points == {"p1", "p2", "pOut", "pNone"}
getDIGIPINFromLatLon(point) ==
  IF point = "pOut" THEN "Invalid coordinates"
  ELSE IF point = "pNone" THEN ""
  ELSE IF point = "p1" THEN "CODE-p1"
  ELSE "CODE-p2"

\* a grid code, as opposed to the encoder's two failure values
IsGridCode(code) == code \notin {"", "Invalid coordinates"}

\* a request object is its properties together with keys, the order in which
\* they were inserted (the order of the JSON text it was parsed from)
GeocodeRequest(address) == [keys |-> <<"address">>, address |-> address]
ReverseGeocodeRequest(digipin) == [keys |-> <<"digipin">>, digipin |-> digipin]
\* the literal { digipin } of validate
ValidateInput(digipin) == [keys |-> <<"digipin">>, digipin |-> digipin]

\* latitude and longitude of a request, named together as one point; pLat
\* has a latitude outside -90..90
CoordinatesRequest(point) ==
  [keys |-> <<"latitude", "longitude">>, latitude |-> point,
   longitude |-> point]
Addresses == {<<>>, <<" ">>, <<"a">>, <<"b">>}
CityRequest(address, city, keys) ==
  [keys |-> keys, address |-> address, city |-> city]
CityRequests ==
  {CityRequest(<<"a">>, c, ks) :
     c \in ({"c1", "c2"}), ks \in {<<"address", "city">>, <<"city", "address">>}}

\* what geocodingService.geocode does: it throws, or returns its candidates
\* sorted by confidence
ServiceThrows == [threw |-> TRUE, results |-> <<>>]
ServiceReturns(results) == [threw |-> FALSE, results |-> results]
GeocodeOutcomes ==
  {ServiceThrows}
  \cup {ServiceReturns(r) :
          r \in {<<>>, <<"p1">>, <<"pOut">>, <<"pNone">>, <<"p1", "p2">>}}

\* ------------------------------------------------------- GeocodingService
\* numbers are kept as integers: an importance in hundredths and a
\* confidence in thousandths; NaN is what parseFloat and parseInt return for
\* a field that is missing or not a number
NaN == 0 - 999999

\* parseFloat(item.importance) || 0
parseImportance(raw) == IF raw = NaN \/ raw = 0 THEN 0 ELSE raw

\* parseInt(item.place_rank) || 30
parsePlaceRank(raw) == IF raw = NaN \/ raw = 0 THEN 30 ELSE raw

\* importanceScore = min(importance * 100, 100) is Min(importance, 100) here;
\* rankScore = max(0, (30 - placeRank) / 30 * 100); the confidence
\* (importanceScore * 0.7 + rankScore * 0.3) / 100, in thousandths, is
\* 7 * importanceScore + 3 * rankScore = 7 * importanceScore
\* + max(0, 10 * (30 - placeRank)), clamped to 0..1000
calculateConfidence(importance, placeRank) ==
  LET importanceScore == Min(importance, 100)
      rankScoreTimes3 == Max(0, 10 * (30 - placeRank))
      confidence == 7 * importanceScore + rankScoreTimes3
  IN Max(0, Min(1000, confidence))

\* what the provider returns for one place: its fields, and index, its
\* position in the provider's response
ProviderFields ==
  {[importance |-> 80, place_rank |-> 17],
   [importance |-> 150, place_rank |-> 0],
   [importance |-> NaN, place_rank |-> NaN],
   [importance |-> 0 - 50, place_rank |-> 40],
   [importance |-> 100, place_rank |-> 0 - 5]}

\* response.map(item => ...)
processItem(item, index) ==
  LET importance == parseImportance(item.importance)
      placeRank == parsePlaceRank(item.place_rank)
  IN [latitude |-> "p1", confidence |-> calculateConfidence(importance,
                                                           placeRank),
      importance |-> importance, placeRank |-> placeRank, index |-> index]

\* Array.prototype.sort with (a, b) => b.confidence - a.confidence: a stable
\* sort, each element going behind the elements that are not smaller
RECURSIVE sortByConfidence_tiesReversed(_)
sortByConfidence_tiesReversed(results) ==
  IF Len(results) <= 1 THEN results
  ELSE LET x == results[Len(results)]
           front == sortByConfidence_tiesReversed(
                      SubSeq(results, 1, Len(results) - 1))
           before == SelectSeq(front,
                               LAMBDA y : y.confidence > x.confidence)
           after == SelectSeq(front,
                              LAMBDA y : y.confidence <= x.confidence)
       IN before \o <<x>> \o after

RECURSIVE sortByConfidence(_)
sortByConfidence(results) ==
  IF Len(results) <= 1 THEN results
  ELSE LET x == results[Len(results)]
           front == sortByConfidence(SubSeq(results, 1, Len(results) - 1))
           before == SelectSeq(front,
                               LAMBDA y : y.confidence >= x.confidence)
           after == SelectSeq(front,
                              LAMBDA y : y.confidence < x.confidence)
       IN before \o <<x>> \o after

\* GeocodingService.geocode for a provider response: the candidates it
\* returns, and results, their coordinates
serviceGeocode(response) ==
  LET candidates == sortByConfidence(
                      [i \in 1..Len(response) |-> processItem(response[i], i)])
  IN [threw |-> FALSE,
      results |-> [i \in 1..Len(candidates) |-> candidates[i].latitude],
      candidates |-> candidates, provider |-> response]

\* a batch entry, with what the geocoding service does if it is asked
BatchEntry(address, svc) == [input |-> GeocodeRequest(address), svc |-> svc]
BatchEntries ==
  {BatchEntry(<<>>, ServiceThrows),
   BatchEntry(<<"a">>, ServiceThrows),
   BatchEntry(<<"a">>, ServiceReturns(<<"p1">>)),
   BatchEntry(<<"b">>, ServiceReturns(<<>>))}

ReverseCodes == {<<>>, Code6}
\* what geocodingService.reverseGeocode does: it throws (upstream failure, or
\* no display_name in the answer), or returns an address
ReverseOutcomes == {"throws", "No address found", "address"}

\* ------------------------------------------------- orchestrator: cache
\* JSON.stringify of an object: its properties in insertion order
JSONstringify(input) ==
  [i \in 1..Len(input.keys) |-> <<input.keys[i], input[input.keys[i]]>>]

generateCacheKey_typeOnly(type, input) == <<type>>

\* md5 of type:JSON(input); md5 is taken as injective
generateCacheKey(type, input) == <<type, JSONstringify(input)>>

getCachedResult_touch(m, cacheKey, t) ==
  IF (IF cacheKey \in DOMAIN m.cacheExpiry
      THEN m.cacheExpiry[cacheKey] # 0 /\ t > m.cacheExpiry[cacheKey]
      ELSE FALSE)
  THEN [hit |-> FALSE, value |-> NULL,
        m |-> [m EXCEPT !.cache = MapDelete(@, {cacheKey}),
                        !.cacheExpiry = MapDelete(@, {cacheKey})]]
  ELSE [hit |-> cacheKey \in DOMAIN m.cache,
        value |-> IF cacheKey \in DOMAIN m.cache THEN m.cache[cacheKey]
                  ELSE NULL,
        m |-> IF cacheKey \in DOMAIN m.cache
              THEN [m EXCEPT !.cacheExpiry =
                      MapSet(@, cacheKey, t + GeocodeTtlMinutes * 60)]
              ELSE m]

getCachedResult_ignoreExpiry(m, cacheKey, t) ==
  [hit |-> cacheKey \in DOMAIN m.cache,
   value |-> IF cacheKey \in DOMAIN m.cache THEN m.cache[cacheKey] ELSE NULL,
   m |-> m]

getCachedResult_readsTable(m, cacheKey, t) ==
  IF (IF cacheKey \in DOMAIN m.cacheExpiry
      THEN m.cacheExpiry[cacheKey] # 0 /\ t > m.cacheExpiry[cacheKey]
      ELSE FALSE)
  THEN [hit |-> FALSE, value |-> NULL,
        m |-> [m EXCEPT !.cache = MapDelete(@, {cacheKey}),
                        !.cacheExpiry = MapDelete(@, {cacheKey})]]
  ELSE IF cacheKey \in DOMAIN m.cache
  THEN [hit |-> TRUE, value |-> m.cache[cacheKey], m |-> m]
  ELSE IF (IF cacheKey \in DOMAIN m.digipin_cache
           THEN t <= m.digipin_cache[cacheKey].expires_at ELSE FALSE)
  THEN [hit |-> TRUE, value |-> m.digipin_cache[cacheKey].output_data,
        m |-> m]
  ELSE [hit |-> FALSE, value |-> NULL, m |-> m]

\* m is the model's cache, cacheExpiry and digipin_cache; the read returns
\* the value, if any, and the maps as it leaves them
getCachedResult(m, cacheKey, t) ==
  IF (IF cacheKey \in DOMAIN m.cacheExpiry
      THEN m.cacheExpiry[cacheKey] # 0 /\ t > m.cacheExpiry[cacheKey]
      ELSE FALSE)
  THEN [hit |-> FALSE, value |-> NULL,
        m |-> [m EXCEPT !.cache = MapDelete(@, {cacheKey}),
                        !.cacheExpiry = MapDelete(@, {cacheKey})]]
  ELSE [hit |-> cacheKey \in DOMAIN m.cache,
        value |-> IF cacheKey \in DOMAIN m.cache THEN m.cache[cacheKey]
                  ELSE NULL,
        m |-> m]

setCachedResult(m, cacheKey, result, ttlMinutes, t) ==
  [m EXCEPT !.cache = MapSet(@, cacheKey, result),
            !.cacheExpiry = MapSet(@, cacheKey, t + ttlMinutes * 60)]

\* stmt.run of INSERT OR REPLACE INTO digipin_cache throws when the row is
\* refused or the database fails
cacheWriteThrows(row) ==
  \/ row.cache_type \notin {"geocode", "reverse", "validate"}
  \/ fault = "cacheWrite"

storeInDatabaseCache_uncaught(m, type, input, output, t) ==
  LET row == [cache_type |-> type, input_data |-> input,
              output_data |-> output,
              expires_at |-> t + DurableTtlMinutes * 60]
  IN IF cacheWriteThrows(row) THEN [m |-> m, threw |-> TRUE]
     ELSE [m |-> [m EXCEPT !.digipin_cache =
                    MapSet(@, generateCacheKey(type, input), row)],
           threw |-> FALSE]

\* the model after the call, and whether an error leaves the call: its body
\* is one try { ... } catch (error) { console.error(...) }
storeInDatabaseCache(m, type, input, output, t) ==
  LET row == [cache_type |-> type, input_data |-> input,
              output_data |-> output,
              expires_at |-> t + DurableTtlMinutes * 60]
  IN IF cacheWriteThrows(row) THEN [m |-> m, threw |-> FALSE]
     ELSE [m |-> [m EXCEPT !.digipin_cache =
                    MapSet(@, generateCacheKey(type, input), row)],
           threw |-> FALSE]

dateOf(t) == t \div (24 * 60 * 60)

clearExpiredCache_expiryOnly(m, t) ==
  LET expired == {k \in DOMAIN m.cacheExpiry : t > m.cacheExpiry[k]}
  IN [m EXCEPT !.cacheExpiry = MapDelete(@, expired)]

\* the model after the sweep: the loop over cacheExpiry.entries(), then the
\* DELETE, whose WHERE compares the stored ISO text ('...T...Z') with
\* datetime("now") ('... ...') as text, so that a row goes when its date is
\* before today's; a failing statement is caught and logged
clearExpiredCache(m, t) ==
  LET expired == {k \in DOMAIN m.cacheExpiry : t > m.cacheExpiry[k]}
      rows == {k \in DOMAIN m.digipin_cache :
                 dateOf(m.digipin_cache[k].expires_at) < dateOf(t)}
  IN [m EXCEPT !.cache = MapDelete(@, expired),
               !.cacheExpiry = MapDelete(@, expired),
               !.digipin_cache = IF fault = "cacheWrite" THEN @
                                 ELSE MapDelete(@, rows)]

\* ------------------------------------------------- orchestrator: operations
\* the outcome of an operation; called tells whether it called the geocoding
\* service
Threw(m, message) ==
  [m |-> m, ok |-> FALSE, hit |-> FALSE, called |-> FALSE, error |-> message]
Returned(m, response, hit) ==
  [m |-> m, ok |-> TRUE, hit |-> hit, called |-> FALSE, response |-> response]

\* the outcome of an operation that went through its await on the service
Called(result) == [result EXCEPT !.called = TRUE]

\* the end of an operation that stored its response: st is the outcome of
\* storeInDatabaseCache; an error leaving it is rethrown by the operation
Stored(st, response, message) ==
  IF st.threw THEN Threw(st.m, message) ELSE Returned(st.m, response, FALSE)

\* geocodeResults.slice(1, 4).map(...).filter(alt => alt.digipin)
alternativesOf(results) ==
  LET rest == SubSeq(results, 2,
                     IF Len(results) < 1 + MaxAlternatives THEN Len(results)
                     ELSE 1 + MaxAlternatives)
      mapped == [i \in 1..Len(rest) |->
                   [digipin |-> getDIGIPINFromLatLon(rest[i]),
                    coordinates |-> rest[i]]]
  IN SelectSeq(mapped, LAMBDA alt : alt.digipin # "")

geocode(m, request, svc, t) ==
  IF trim(request.address) = <<>>
  THEN Threw(m, "Geocoding failed: Address is required")
  ELSE
    LET cacheKey == generateCacheKey("geocode", request)
        got == getCachedResult(m, cacheKey, t)
    IN IF got.hit THEN Returned(got.m, got.value, TRUE)
       ELSE Called(
       IF svc.threw
       THEN Threw(got.m, "Geocoding failed: Geocoding failed: upstream")
       ELSE IF Len(svc.results) = 0
       THEN Threw(got.m,
                  "Geocoding failed: No results found for the provided address")
       ELSE
         LET bestResult == svc.results[1]
             digipin == getDIGIPINFromLatLon(bestResult)
             alternatives == alternativesOf(svc.results)
             response ==
               IF Len(alternatives) > 0
               THEN [digipin |-> digipin, coordinates |-> bestResult,
                     alternatives |-> alternatives]
               ELSE [digipin |-> digipin, coordinates |-> bestResult]
         IN IF ((digipin) = "")
            THEN Threw(got.m, "Geocoding failed: Unable to generate DigiPin from geocoded coordinates")
            ELSE Stored(
                   storeInDatabaseCache(
                     setCachedResult(got.m, cacheKey, response,
                                     GeocodeTtlMinutes, t),
                     "geocode", request, response, t),
                   response, "Geocoding failed: database"))

coordinatesToDigiPin(m, request, t) ==
  IF request.latitude = "pLat"
  THEN Threw(m, "Coordinates to DigiPin conversion failed: Latitude must be between -90 and 90")
  ELSE
    LET cacheKey == generateCacheKey("coordinates-to-digipin", request)
        got == getCachedResult(m, cacheKey, t)
        digipin == getDIGIPINFromLatLon(request.latitude)
        response == [digipin |-> digipin, coordinates |-> request.latitude]
    IN IF got.hit THEN Returned(got.m, got.value, TRUE)
       ELSE IF digipin = "" \/ digipin = "Invalid coordinates"
       THEN Threw(got.m, "Coordinates to DigiPin conversion failed: Unable to generate DigiPin from the provided coordinates")
       ELSE Stored(
              storeInDatabaseCache(
                setCachedResult(got.m, cacheKey, response,
                                GeocodeTtlMinutes, t),
                "coordinates-to-digipin", request, response, t),
              response, "Coordinates to DigiPin conversion failed: database")

getLatLonFromDIGIPIN(lib, code) ==
  IF code \in DOMAIN lib THEN lib[code] ELSE "Invalid DIGIPIN"

reverseGeocode(m, lib, request, rsvc, t) ==
  IF trim(request.digipin) = <<>>
  THEN Threw(m, "Reverse geocoding failed: DigiPin is required")
  ELSE
    LET cacheKey == generateCacheKey("reverse", request)
        got == getCachedResult(m, cacheKey, t)
        digipinResult == getLatLonFromDIGIPIN(lib, trim(request.digipin))
        response == [address |-> "address", coordinates |-> trim(request.digipin)]
    IN IF got.hit THEN Returned(got.m, got.value, TRUE)
       ELSE IF digipinResult = "throws"
       THEN Threw(got.m, "Reverse geocoding failed: decoder")
       ELSE IF digipinResult = "Invalid DIGIPIN"
       THEN Threw(got.m, "Reverse geocoding failed: Invalid DigiPin format")
       ELSE Called(
       IF rsvc = "throws"
       THEN Threw(got.m, "Reverse geocoding failed: Reverse geocoding failed: upstream")
       ELSE IF rsvc = "No address found"
       THEN Threw(got.m, "Reverse geocoding failed: Reverse geocoding failed: No address found for the given coordinates")
       ELSE Stored(
              storeInDatabaseCache(
                setCachedResult(got.m, cacheKey, response,
                                GeocodeTtlMinutes, t),
                "reverse", request, response, t),
              response, "Reverse geocoding failed: database"))

LengthError == "DigiPin must be between 6 and 20 characters long"
CharsError == "DigiPin can only contain alphanumeric characters, hyphens, and underscores"
SemanticError == "DigiPin does not correspond to a valid location"
lengthOk_exclusive(cleanDigiPin) ==
  ~(Len(cleanDigiPin) <= MinCodeLen \/ Len(cleanDigiPin) >= MaxCodeLen)

\* cleanDigiPin.length < 6 || cleanDigiPin.length > 20
lengthOk(cleanDigiPin) ==
  ~(Len(cleanDigiPin) < MinCodeLen \/ Len(cleanDigiPin) > MaxCodeLen)

\* /^[A-Za-z0-9\-_]+$/.test(cleanDigiPin)
charsOk(cleanDigiPin) ==
  /\ Len(cleanDigiPin) >= 1
  /\ \A i \in 1..Len(cleanDigiPin) : cleanDigiPin[i] \in CodeChars

isValidDigiPin_structural(structural, decoded) == structural

\* let isValidDigiPin = errors.length === 0, cleared by a failed decode
isValidDigiPin(structural, decoded) == structural /\ decoded = "ok"

\* errors: errors.length > 0 ? errors : undefined
ValidationResponse(isValid, digipin, errors) ==
  IF Len(errors) > 0
  THEN [isValid |-> isValid, digipin |-> digipin, errors |-> errors]
  ELSE [isValid |-> isValid, digipin |-> digipin]

\* the result carries whether the decoder was called
validate(m, lib, digipin, t) ==
  IF trim(digipin) = <<>>
  THEN [m |-> m, ok |-> TRUE, hit |-> FALSE, decodeAttempted |-> FALSE,
        response |-> ValidationResponse(FALSE, digipin, <<("DigiPin is required")>>)]
  ELSE
    LET cacheKey == generateCacheKey("validate", ValidateInput(digipin))
        got == getCachedResult(m, cacheKey, t)
        cleanDigiPin == trim(digipin)
        errors1 == IF lengthOk(cleanDigiPin) THEN <<>> ELSE <<LengthError>>
        errors2 == IF charsOk(cleanDigiPin) THEN errors1
                   ELSE Append(errors1, CharsError)
        structural == Len(errors2) = 0
        decoded == IF structural THEN getLatLonFromDIGIPIN(lib, cleanDigiPin)
                   ELSE "not attempted"
        errors == IF structural /\ decoded # "ok"
                  THEN Append(errors2, SemanticError) ELSE errors2
        response == ValidationResponse(isValidDigiPin(structural, decoded),
                                       cleanDigiPin, errors)
        st == storeInDatabaseCache(
                setCachedResult(got.m, cacheKey, response,
                                ValidateTtlMinutes, t),
                "validate", ValidateInput(digipin), response, t)
    IN IF got.hit
       THEN [m |-> got.m, ok |-> TRUE, hit |-> TRUE,
             decodeAttempted |-> FALSE, response |-> got.value]
       ELSE [m |-> st.m, ok |-> TRUE, hit |-> FALSE,
             decodeAttempted |-> structural,
             response |-> IF st.threw
                          THEN ValidationResponse(
                                 FALSE, digipin,
                                 <<"Validation failed: database">>)
                          ELSE response]

batchEntry_noErrorCount(acc, address, svc, t) ==
  LET g == geocode(acc.m, address, svc, t)
  IN [m |-> g.m, called |-> acc.called \/ g.called,
      results |-> Append(acc.results,
                         [input |-> address,
                          result |-> IF g.ok THEN g.response
                                     ELSE [error |-> g.error]]),
      successCount |-> acc.successCount + (IF g.ok THEN 1 ELSE 0),
      errorCount |-> acc.errorCount]

batchEntry_dropsFailed(acc, address, svc, t) ==
  LET g == geocode(acc.m, address, svc, t)
  IN IF g.ok
     THEN [m |-> g.m, called |-> acc.called \/ g.called,
           results |-> Append(acc.results,
                              [input |-> address, result |-> g.response]),
           successCount |-> acc.successCount + 1,
           errorCount |-> acc.errorCount]
     ELSE [acc EXCEPT !.errorCount = @ + 1]

\* one pass of the loop body of batchGeocode; svc is what the geocoding
\* service does if the entry reaches it
batchEntry(acc, address, svc, t) ==
  LET g == geocode(acc.m, address, svc, t)
  IN IF g.ok
     THEN [m |-> g.m, called |-> acc.called \/ g.called,
           results |-> Append(acc.results,
                              [input |-> address, result |-> g.response]),
           successCount |-> acc.successCount + 1,
           errorCount |-> acc.errorCount]
     ELSE [m |-> g.m, called |-> acc.called \/ g.called,
           results |-> Append(acc.results,
                              [input |-> address,
                               result |-> [error |-> g.error]]),
           successCount |-> acc.successCount,
           errorCount |-> acc.errorCount + 1]

\* the loop of batchGeocode over entries lo..hi, in order: the entries up to
\* mid are processed before the later ones start
RECURSIVE batchLoop(_, _, _, _, _, _)
batchLoop(acc, addresses, svcs, lo, hi, t) ==
  IF lo > hi THEN acc
  ELSE IF lo = hi THEN batchEntry(acc, addresses[lo], svcs[lo], t)
  ELSE LET mid == (lo + hi) \div 2
           first == batchLoop(acc, addresses, svcs, lo, mid, t)
       IN IF Len(first.results) = Len(acc.results) THEN first
          ELSE batchLoop(first, addresses, svcs, mid + 1, hi, t)

batchGeocode(m, addresses, svcs, t) ==
  IF Len(addresses) = 0
  THEN Threw(m, "Batch geocoding failed: Addresses array is required")
  ELSE IF Len(addresses) > MaxItems
  THEN Threw(m, "Batch geocoding failed: Maximum 100 addresses allowed per batch request")
  ELSE
    LET done == batchLoop([m |-> m, called |-> FALSE, results |-> <<>>,
                           successCount |-> 0, errorCount |-> 0],
                          addresses, svcs, 1, Len(addresses), t)
    IN [Returned(done.m,
                 [results |-> done.results,
                  totalProcessed |-> Len(addresses),
                  successCount |-> done.successCount,
                  errorCount |-> done.errorCount],
                 FALSE)
          EXCEPT !.called = done.called]

\* what a route handler replies after the orchestrator call: 200 with the
\* result, or its catch block's 500
routeReply(result, errorCode) ==
  IF result.ok THEN [status |-> 200, code |-> ""]
  ELSE [status |-> 500, code |-> errorCode]

\* ------------------------------------------------------------------ Init
ApiKeyRow(id, tier, limit, reset) ==
  [key_hash |-> hashApiKey(SecretOf(id)), tier |-> tier,
   monthly_limit |-> limit, current_usage |-> 0,
   usage_reset_date |-> reset, is_active |-> TRUE]

InitGate(tiers, limits, dates) ==
  /\ now = 0
  /\ \E t \in tiers, l \in limits, d \in dates :
       api_keys = [id \in KeyIds |->
                     IF id = 1 THEN ApiKeyRow(1, t, l, d)
                     ELSE ApiKeyRow(id, "free", 1, Month)]
  /\ request_logs = [s \in Slots |-> <<>>]
  /\ rateLimitStore = EmptyMap
  /\ globalStore = EmptyMap
  /\ req = [s \in Slots |-> IdleReq]
  /\ admitted = [id \in KeyIds |-> 0]
  /\ served = 0

NoCall == [seq |-> 0, op |-> "none"]

\* a DigiPinModel as constructed, with the decoder of one of libs
ModelInit(libs) ==
  /\ cache = EmptyMap
  /\ cacheExpiry = EmptyMap
  /\ digipin_cache = EmptyMap
  /\ decoder \in libs
  /\ last = NoCall
  /\ fault = "none"

InitWith(limits, dates) ==
  InitGate(({"free", "paid", "enterprise"}), limits, dates) /\ ModelInit({DefaultLibrary})

Init == InitWith(MonthlyLimits, ({0}))

\* ------------------------------------------- @fastify/rate-limit (global)
\* fixed window per key: a new window starts when none is stored or the
\* stored one is timeWindow old; the request is refused once current > max
globalIncr(store, k, t) ==
  IF (IF k \in DOMAIN store THEN t - store[k].start >= Window ELSE TRUE)
  THEN MapSet(store, k, [current |-> 1, start |-> t])
  ELSE MapSet(store, k, [store[k] EXCEPT !.current = @ + 1])

globalRoom(store, k, t) ==
  IF k \notin DOMAIN store THEN TRUE
  ELSE IF t - store[k].start >= Window THEN TRUE
  ELSE store[k].current < GlobalMax + MaxOver

\* a request arrives in slot s and passes the onRequest hook
Arrive(s, auth, xkey, ep, n, ok, counted) ==
  LET r0 == [IdleReq EXCEPT !.authorization = auth, !.xApiKey = xkey,
                            !.endpoint = ep, !.addresses = n,
                            !.addressOk = ok]
      gk == keyGenerator(r0)
      g1 == globalIncr(globalStore, gk, now)
  IN /\ req[s].pc \in {"idle", "done"}
     /\ globalRoom(globalStore, gk, now)
     /\ IF counted
        THEN served < MaxRequests /\ served' = served + 1
        ELSE served' = served
     /\ globalStore' = g1
     /\ request_logs' = [request_logs EXCEPT ![s] = <<>>]
     /\ req' = [req EXCEPT ![s] =
                  IF g1[gk].current > GlobalMax
                  THEN [send(r0, 429, "Too Many Requests")
                          EXCEPT !.pc = "done"]
                  ELSE [r0 EXCEPT !.pc = "apiKeyAuth"]]
     /\ UNCHANGED <<now, api_keys, rateLimitStore, admitted>>
     /\ UNCHANGED modelVars

\* --------------------------------------------------------------- apiKeyAuth
rolloverIfExpired_keepsDate(row, t) ==
  IF t > row.usage_reset_date
  THEN [row EXCEPT !.current_usage = 0]
  ELSE row

rolloverIfExpired_atDate(row, t) ==
  IF t >= row.usage_reset_date
  THEN [row EXCEPT !.current_usage = 0, !.usage_reset_date = t + Month]
  ELSE row

rolloverIfExpired(row, t) ==
  IF t > row.usage_reset_date
  THEN [row EXCEPT !.current_usage = 0, !.usage_reset_date = t + Month]
  ELSE row

usageLimitExceeded_afterLimit(info) ==
  info.tier # "enterprise" /\ info.current_usage >= info.monthly_limit + 1

usageLimitExceeded_strict(info) ==
  info.tier # "enterprise" /\ info.current_usage > info.monthly_limit

usageLimitExceeded(info) ==
  info.tier # "enterprise" /\ info.current_usage >= info.monthly_limit

ApiKeyAuth(s) ==
  LET r == req[s]
      apiKey == extractApiKey(r)
      found == lookupActiveKey(api_keys, hashApiKey(apiKey))
  IN /\ r.pc = "apiKeyAuth"
     /\ IF apiKey = ""
        THEN /\ req' = [req EXCEPT ![s] =
                          [send(r, 401, "MISSING_API_KEY") EXCEPT !.pc = "done"]]
             /\ UNCHANGED <<api_keys, request_logs>>
        ELSE IF found = {}
        THEN /\ request_logs' = logRequestRows(request_logs, s, NULL, 401)
             /\ api_keys' = logRequestUsage(api_keys, NULL, 401)
             /\ req' = [req EXCEPT ![s] =
                          [authReply(r, NULL, 401, "INVALID_API_KEY")
                             EXCEPT !.pc = "done"]]
        ELSE LET id == CHOOSE i \in found : TRUE
                 info == rolloverIfExpired(api_keys[id], now)
                 keys1 == [api_keys EXCEPT ![id] = info]
                 r1 == [r EXCEPT !.rolledFrom =
                                   IF info # api_keys[id]
                                   THEN api_keys[id].current_usage ELSE -1]
             IN IF usageLimitExceeded(info)
                THEN /\ request_logs' = logRequestRows(request_logs, s, id, 429)
                     /\ api_keys' = logRequestUsage(keys1, id, 429)
                     /\ req' = [req EXCEPT ![s] =
                                  [authReply(r1, id, 429, "USAGE_LIMIT_EXCEEDED")
                                     EXCEPT !.pc = "done"]]
                ELSE /\ api_keys' = keys1
                     /\ req' = [req EXCEPT ![s] =
                                  [r1 EXCEPT !.apiKeyInfo = id,
                                             !.pc = IF r.endpoint = "usage"
                                                    THEN "handler"
                                                    ELSE "tieredRateLimit"]]
                     /\ UNCHANGED request_logs
     /\ UNCHANGED <<now, rateLimitStore, globalStore, admitted, served>>
     /\ UNCHANGED modelVars

\* ---------------------------------------------------------- tieredRateLimit
cleanExpiredEntries_atReset(store, t) ==
  MapDelete(store, {k \in DOMAIN store : t >= store[k].resetTime})

cleanExpiredEntries(store, t) ==
  MapDelete(store, {k \in DOMAIN store : t > store[k].resetTime})

isWithinRateLimit_lostUpdate(store, key, tier, t) ==
  LET limit == DEFAULT_RATE_LIMITS(tier)
  IN IF (IF key \in DOMAIN store THEN t > store[key].resetTime ELSE TRUE)
     THEN [allowed |-> TRUE, remaining |-> limit.requests - 1,
           resetTime |-> t + limit.windowMs,
           store |-> MapSet(store, key,
                            [count |-> 1, resetTime |-> t + limit.windowMs])]
     ELSE IF store[key].count >= limit.requests
     THEN [allowed |-> FALSE, remaining |-> 0,
           resetTime |-> store[key].resetTime, store |-> store]
     ELSE [allowed |-> TRUE,
           remaining |-> limit.requests - (store[key].count + 1),
           resetTime |-> store[key].resetTime,
           store |-> IF store[key].count = limit.requests - 1
                     THEN store
                     ELSE MapSet(store, key,
                                 [store[key] EXCEPT !.count = @ + 1])]

isWithinRateLimit_sliding(store, key, tier, t) ==
  LET limit == DEFAULT_RATE_LIMITS(tier)
  IN IF (IF key \in DOMAIN store THEN t > store[key].resetTime ELSE TRUE)
     THEN [allowed |-> TRUE, remaining |-> limit.requests - 1,
           resetTime |-> t + limit.windowMs,
           store |-> MapSet(store, key,
                            [count |-> 1, resetTime |-> t + limit.windowMs])]
     ELSE IF store[key].count >= limit.requests
     THEN [allowed |-> FALSE, remaining |-> 0,
           resetTime |-> store[key].resetTime, store |-> store]
     ELSE [allowed |-> TRUE,
           remaining |-> limit.requests - (store[key].count + 1),
           resetTime |-> t + limit.windowMs,
           store |-> MapSet(store, key,
                            [count |-> store[key].count + 1,
                             resetTime |-> t + limit.windowMs])]

isWithinRateLimit_offByOne(store, key, tier, t) ==
  LET limit == DEFAULT_RATE_LIMITS(tier)
  IN IF (IF key \in DOMAIN store THEN t > store[key].resetTime ELSE TRUE)
     THEN [allowed |-> TRUE, remaining |-> limit.requests - 1,
           resetTime |-> t + limit.windowMs,
           store |-> MapSet(store, key,
                            [count |-> 1, resetTime |-> t + limit.windowMs])]
     ELSE IF store[key].count > limit.requests
     THEN [allowed |-> FALSE, remaining |-> 0,
           resetTime |-> store[key].resetTime, store |-> store]
     ELSE [allowed |-> TRUE,
           remaining |-> limit.requests - (store[key].count + 1),
           resetTime |-> store[key].resetTime,
           store |-> MapSet(store, key,
                            [store[key] EXCEPT !.count = @ + 1])]

isWithinRateLimit(store, key, tier, t) ==
  LET limit == DEFAULT_RATE_LIMITS(tier)
  IN IF (IF key \in DOMAIN store THEN t > store[key].resetTime ELSE TRUE)
     THEN [allowed |-> TRUE, remaining |-> limit.requests - 1,
           resetTime |-> t + limit.windowMs,
           store |-> MapSet(store, key,
                            [count |-> 1, resetTime |-> t + limit.windowMs])]
     ELSE IF store[key].count >= limit.requests
     THEN [allowed |-> FALSE, remaining |-> 0,
           resetTime |-> store[key].resetTime, store |-> store]
     ELSE [allowed |-> TRUE,
           remaining |-> limit.requests - (store[key].count + 1),
           resetTime |-> store[key].resetTime,
           store |-> MapSet(store, key,
                            [store[key] EXCEPT !.count = @ + 1])]

\* -------------------------------------------------------- getRateLimitStatus
getRateLimitStatus_creates(store, key, tier, t) ==
  LET config == DEFAULT_RATE_LIMITS(tier)
  IN IF key \notin DOMAIN store
     THEN [remaining |-> config.requests, resetTime |-> t + config.windowMs,
           store |-> MapSet(store, key,
                            [count |-> 0, resetTime |-> t + config.windowMs])]
     ELSE [remaining |-> Max(0, config.requests - store[key].count),
           resetTime |-> store[key].resetTime, store |-> store]

\* the remaining and resetTime it reports, and the store after the call
getRateLimitStatus(store, key, tier, t) ==
  LET config == DEFAULT_RATE_LIMITS(tier)
  IN IF key \notin DOMAIN store
     THEN [remaining |-> config.requests, resetTime |-> t + config.windowMs,
           store |-> store]
     ELSE [remaining |-> Max(0, config.requests - store[key].count),
           resetTime |-> store[key].resetTime, store |-> store]

\* clean is the outcome of Math.random() < 0.01
TieredRateLimit(s, clean) ==
  LET r == req[s]
      id == r.apiKeyInfo
      tier == api_keys[id].tier
      key == getRateLimitKey(id)
      fresh == IF key \in DOMAIN rateLimitStore
               THEN now > rateLimitStore[key].resetTime ELSE TRUE
      store0 == IF clean THEN cleanExpiredEntries(rateLimitStore, now)
                ELSE rateLimitStore
      res == isWithinRateLimit(store0, key, tier, now)
      r1 == [r EXCEPT !.reachedLimiter = TRUE, !.remaining = res.remaining]
  IN /\ r.pc = "tieredRateLimit"
     /\ rateLimitStore' = res.store
     /\ admitted' = [admitted EXCEPT ![id] =
                       (IF fresh THEN 0 ELSE @) + (IF res.allowed THEN 1 ELSE 0)]
     /\ req' = [req EXCEPT ![s] =
                  IF res.allowed
                  THEN [r1 EXCEPT !.pc = "handler"]
                  ELSE [send(r1, 429, "RATE_LIMIT_EXCEEDED")
                          EXCEPT !.pc = "done"]]
     /\ UNCHANGED <<now, api_keys, request_logs, globalStore, served>>
     /\ UNCHANGED modelVars

\* ------------------------------------------------------------ clearRateLimit
clearRateLimit_all(store, apiKeyId) == EmptyMap

\* the store after the call
clearRateLimit(store, apiKeyId) ==
  MapDelete(store, {<<"api_key", apiKeyId>>})

\* an administrator clears the limiter of a key, between two steps of the
\* event loop
ClearRateLimit(apiKeyId) ==
  /\ rateLimitStore' = clearRateLimit(rateLimitStore, apiKeyId)
  /\ UNCHANGED <<now, api_keys, request_logs, globalStore, req, admitted,
                 served>>
  /\ UNCHANGED modelVars

\* ------------------------------------------------------------ route handlers
\* burstRateLimit: the reply it sends, if any; it returns to the handler
burstRateLimit(r, tier, operationCount) ==
  IF operationCount > burstLimits(tier)
  THEN send(r, 429, "BURST_LIMIT_EXCEEDED")
  ELSE r

\* the handler body up to its first await on the orchestrator, or, where it
\* returns before that, up to the end of its finally block
Handler(s) ==
  LET r == [req[s] EXCEPT !.statusCode = 200]
      id == r.apiKeyInfo
      tier == api_keys[id].tier
      fail(c) == [afterLog(send([r EXCEPT !.statusCode = 400], 400, c),
                           id, 400)
                    EXCEPT !.pc = "done"]
      rateLimitStatus == getRateLimitStatus(rateLimitStore,
                                            getRateLimitKey(id), tier, now)
  IN /\ req[s].pc = "handler"
     /\ rateLimitStore' = IF r.endpoint = "usage" THEN rateLimitStatus.store
                          ELSE rateLimitStore
     /\ IF r.endpoint = "geocode" /\ ~r.addressOk
        THEN /\ req' = [req EXCEPT ![s] = fail("MISSING_ADDRESS")]
             /\ request_logs' = logRequestRows(request_logs, s, id, 400)
             /\ api_keys' = logRequestUsage(api_keys, id, 400)
        ELSE IF r.endpoint = "geocode"
        THEN /\ req' = [req EXCEPT ![s] =
                          [r EXCEPT !.invoked = "geocode", !.pc = "external"]]
             /\ UNCHANGED <<request_logs, api_keys>>
        ELSE IF r.endpoint = "batch" /\ r.addresses = 0
        THEN /\ req' = [req EXCEPT ![s] = fail("MISSING_ADDRESSES")]
             /\ request_logs' = logRequestRows(request_logs, s, id, 400)
             /\ api_keys' = logRequestUsage(api_keys, id, 400)
        ELSE IF r.endpoint = "batch" /\ r.addresses > MaxItems
        THEN /\ req' = [req EXCEPT ![s] = fail("BATCH_SIZE_EXCEEDED")]
             /\ request_logs' = logRequestRows(request_logs, s, id, 400)
             /\ api_keys' = logRequestUsage(api_keys, id, 400)
        ELSE IF r.endpoint = "batch"
        THEN /\ req' = [req EXCEPT ![s] =
                          [burstRateLimit(r, tier, r.addresses)
                             EXCEPT !.invoked = "batchGeocode",
                                    !.pc = "external"]]
             /\ UNCHANGED <<request_logs, api_keys>>
        ELSE /\ UsageRoom(id)
             /\ req' = [req EXCEPT ![s] =
                          [afterLog(send(r, 200, ""), id, 200)
                             EXCEPT !.pc = "done",
                                    !.rateLimit =
                                      [remaining |-> rateLimitStatus.remaining,
                                       resetTime |-> rateLimitStatus.resetTime]]]
             /\ request_logs' = logRequestRows(request_logs, s, id, 200)
             /\ api_keys' = logRequestUsage(api_keys, id, 200)
     /\ UNCHANGED <<now, globalStore, admitted, served>>
     /\ UNCHANGED modelVars

\* the orchestrator call returns (ok) or throws; the handler sends its
\* response and the finally block logs the request
Complete(s, outcome) ==
  LET r == req[s]
      id == r.apiKeyInfo
      r1 == IF outcome = "ok"
            THEN send(r, 200, "")
            ELSE send([r EXCEPT !.statusCode = 500], 500,
                      IF r.endpoint = "batch" THEN "BATCH_GEOCODING_ERROR"
                      ELSE "GEOCODING_ERROR")
  IN /\ r.pc = "external"
     /\ r.invoked = "batchGeocode" => outcome = "ok"
     /\ r1.statusCode < 400 => UsageRoom(id)
     /\ req' = [req EXCEPT ![s] =
                  [afterLog(r1, id, r1.statusCode) EXCEPT !.pc = "done"]]
     /\ request_logs' = logRequestRows(request_logs, s, id, r1.statusCode)
     /\ api_keys' = logRequestUsage(api_keys, id, r1.statusCode)
     /\ UNCHANGED <<now, rateLimitStore, globalStore, admitted, served>>
     /\ UNCHANGED modelVars

\* ------------------------------------------------- key management commands
\* run from the shell between requests' synchronous steps
Quiet == \A s \in Slots : req[s].pc \in {"idle", "external", "done"}

Deactivate(keyId) ==
  /\ Quiet
  /\ api_keys[keyId].is_active
  /\ api_keys' = [api_keys EXCEPT ![keyId].is_active = FALSE]
  /\ UNCHANGED <<now, request_logs, rateLimitStore, globalStore, req,
                 admitted, served>>
  /\ UNCHANGED modelVars

Activate(keyId) ==
  /\ Quiet
  /\ ~api_keys[keyId].is_active
  /\ api_keys' = [api_keys EXCEPT ![keyId].is_active = TRUE]
  /\ UNCHANGED <<now, request_logs, rateLimitStore, globalStore, req,
                 admitted, served>>
  /\ UNCHANGED modelVars

\* ------------------------------------------------------------------- clock
\* the hooks and the synchronous part of a handler run within one second
Tick(maxTicks) ==
  /\ Quiet
  /\ now + TickLen <= maxTicks * TickLen
  /\ now' = now + TickLen
  /\ UNCHANGED <<api_keys, request_logs, rateLimitStore, globalStore, req,
                 admitted, served>>
  /\ UNCHANGED modelVars

\* ------------------------------------------------- orchestrator: calls
\* the DigiPinModel instance of a route module
Model == [cache |-> cache, cacheExpiry |-> cacheExpiry,
          digipin_cache |-> digipin_cache]

Commit(m) ==
  /\ cache' = m.cache
  /\ cacheExpiry' = m.cacheExpiry
  /\ digipin_cache' = m.digipin_cache

\* last: the latest call, what its collaborators did, and its outcome
Outcome(op, input, svc, result, reply) ==
  LET base == [seq |-> last.seq + 1, op |-> op, input |-> input, svc |-> svc,
               at |-> now, ok |-> result.ok, hit |-> result.hit,
               called |-> result.called, reply |-> reply]
  IN IF result.ok
     THEN [x \in DOMAIN base \cup {"response"} |->
             IF x = "response" THEN result.response ELSE base[x]]
     ELSE [x \in DOMAIN base \cup {"error"} |->
             IF x = "error" THEN result.error ELSE base[x]]

\* POST /v1/geocode, from the handler's address check to its reply
GeocodeRoute(request, svc) ==
  /\ last.seq < MaxCalls
  /\ IF trim(request.address) = <<>>
     THEN /\ last' = [seq |-> last.seq + 1, op |-> "geocode",
                      input |-> request, svc |-> svc, at |-> now,
                      ok |-> FALSE, hit |-> FALSE, called |-> FALSE,
                      error |-> "Address is required",
                      reply |-> [status |-> 400, code |-> "MISSING_ADDRESS"]]
          /\ UNCHANGED <<cache, cacheExpiry, digipin_cache>>
     ELSE LET result == geocode(Model, request, svc, now)
          IN /\ Commit(result.m)
             /\ last' = Outcome("geocode", request, svc, result,
                                routeReply(result, "GEOCODING_ERROR"))
  /\ UNCHANGED <<now, gateVars, decoder, fault>>

\* POST /v1/digipin/reverse, from the handler's digipin check to its reply
ReverseRoute(request, rsvc) ==
  /\ last.seq < MaxCalls
  /\ IF trim(request.digipin) = <<>>
     THEN /\ last' = [seq |-> last.seq + 1, op |-> "reverse",
                      input |-> request, svc |-> rsvc, at |-> now,
                      ok |-> FALSE, hit |-> FALSE, called |-> FALSE,
                      error |-> "DigiPin is required",
                      reply |-> [status |-> 400, code |-> "MISSING_DIGIPIN"]]
          /\ UNCHANGED <<cache, cacheExpiry, digipin_cache>>
     ELSE LET result == reverseGeocode(Model, decoder, request, rsvc, now)
          IN /\ Commit(result.m)
             /\ last' = Outcome("reverse", request, rsvc, result,
                                routeReply(result, "REVERSE_GEOCODING_ERROR"))
  /\ UNCHANGED <<now, gateVars, decoder, fault>>

\* POST /v1/coordinates-to-digipin, from the handler's checks to its reply
CoordinatesRoute(request) ==
  /\ last.seq < MaxCalls
  /\ IF request.latitude = "pLat"
     THEN /\ last' = [seq |-> last.seq + 1, op |-> "coordinatesToDigiPin",
                      input |-> request, svc |-> "none", at |-> now,
                      ok |-> FALSE, hit |-> FALSE, called |-> FALSE,
                      error |-> "Latitude must be between -90 and 90",
                      reply |-> [status |-> 400, code |-> "INVALID_LATITUDE"]]
          /\ UNCHANGED <<cache, cacheExpiry, digipin_cache>>
     ELSE LET result == coordinatesToDigiPin(Model, request, now)
          IN /\ Commit(result.m)
             /\ last' = Outcome("coordinatesToDigiPin", request, "none",
                                result,
                                routeReply(result,
                                           "COORDINATES_TO_DIGIPIN_ERROR"))
  /\ UNCHANGED <<now, gateVars, decoder, fault>>

\* digipinModel.validate(digipin)
ValidateCall(digipin) ==
  LET result == validate(Model, decoder, digipin, now)
  IN /\ last.seq < MaxValidateCalls
     /\ Commit(result.m)
     /\ last' = [seq |-> last.seq + 1, op |-> "validate", input |-> digipin,
                 repeated |-> IF last.op = "validate"
                              THEN last.input = digipin ELSE FALSE,
                 at |-> now, ok |-> TRUE, hit |-> result.hit, called |-> FALSE,
                 decodeAttempted |-> result.decodeAttempted,
                 response |-> result.response]
     /\ UNCHANGED <<now, gateVars, decoder, fault>>

\* digipinModel.batchGeocode({addresses})
BatchGeocodeCall(addresses, svcs) ==
  LET result == batchGeocode(Model, addresses, svcs, now)
  IN /\ last.seq < MaxCalls
     /\ Commit(result.m)
     /\ last' = Outcome("batchGeocode", addresses, svcs, result,
                        routeReply(result, "BATCH_GEOCODING_ERROR"))
     /\ UNCHANGED <<now, gateVars, decoder, fault>>

\* the finally block of the batch handler: one logRequest call for the
\* request, whatever batchGeocode returned
batchFinally_perAddress(keys, apiKeyId, statusCode, result) ==
  IF result.ok /\ statusCode < 400
  THEN [keys EXCEPT ![apiKeyId].current_usage
                      = @ + result.response.totalProcessed]
  ELSE keys

batchFinally(keys, apiKeyId, statusCode, result) ==
  logRequestUsage(keys, apiKeyId, statusCode)

\* POST /v1/batch from the return of its await on batchGeocode: the
\* orchestrator call with the request's addresses, the reply, and the
\* finally block
BatchRoute(s, addresses, svcs) ==
  LET r == req[s]
      id == r.apiKeyInfo
      result == batchGeocode(Model, addresses, svcs, now)
      r1 == IF result.ok
            THEN send(r, 200, "")
            ELSE send([r EXCEPT !.statusCode = 500], 500,
                      "BATCH_GEOCODING_ERROR")
  IN /\ r.pc = "external" /\ r.invoked = "batchGeocode"
     /\ Len(addresses) = r.addresses
     /\ r1.statusCode < 400 => UsageRoom(id)
     /\ req' = [req EXCEPT ![s] =
                  [afterLog(r1, id, r1.statusCode) EXCEPT !.pc = "done"]]
     /\ request_logs' = logRequestRows(request_logs, s, id, r1.statusCode)
     /\ api_keys' = batchFinally(api_keys, id, r1.statusCode, result)
     /\ Commit(result.m)
     /\ last' = Outcome("batchGeocode", addresses, svcs, result,
                        [status |-> req'[s].status, code |-> req'[s].code])
     /\ UNCHANGED <<now, rateLimitStore, globalStore, admitted, served,
                    decoder, fault>>

\* the database starts or stops failing a statement
SetFault(f) ==
  /\ fault # f
  /\ fault' = f
  /\ UNCHANGED <<now, gateVars, cache, cacheExpiry, digipin_cache, decoder,
                 last>>

\* time passes between calls
TickCache ==
  /\ now + CacheTick <= MaxCacheTicks * CacheTick
  /\ now' = now + CacheTick
  /\ UNCHANGED <<gateVars, modelVars>>

\* the keys, values and lifetimes the cache calls are made with
CacheKeys ==
  {generateCacheKey("geocode", GeocodeRequest(a)) : a \in {<<"a">>, <<"b">>}}
\* this.setCachedResult(cacheKey, result, ttlMinutes)
SetCachedResult(cacheKey, result, ttlMinutes) ==
  /\ Commit(setCachedResult(Model, cacheKey, result, ttlMinutes, now))
  /\ last' = [seq |-> last.seq, op |-> "setCachedResult", key |-> cacheKey,
              hit |-> FALSE, removed |-> {}]
  /\ UNCHANGED <<now, gateVars, decoder, fault>>

\* this.getCachedResult(cacheKey)
GetCachedResult(cacheKey) ==
  LET got == getCachedResult(Model, cacheKey, now)
  IN /\ Commit(got.m)
     /\ last' = [seq |-> last.seq, op |-> "getCachedResult", key |-> cacheKey,
                 hit |-> got.hit,
                 removed |-> DOMAIN cacheExpiry \ DOMAIN got.m.cacheExpiry]
     /\ UNCHANGED <<now, gateVars, decoder, fault>>

\* digipinModel.clearExpiredCache()
ClearExpiredCache ==
  LET m == clearExpiredCache(Model, now)
  IN /\ Commit(m)
     /\ last' = [seq |-> last.seq, op |-> "clearExpiredCache", key |-> <<>>,
                 hit |-> FALSE,
                 removed |-> DOMAIN cacheExpiry \ DOMAIN m.cacheExpiry]
     /\ UNCHANGED <<now, gateVars, decoder, fault>>

\* ------------------------------------------------------------ specifications
ArriveAny(s, clients, counted) ==
  \/ \E c \in clients, ok \in BOOLEAN :
       Arrive(s, c.authorization, c.xApiKey, "geocode", 0, ok, counted)
  \/ \E c \in clients, n \in ({0, BurstFree + 1, BurstPaid + 1}) :
       Arrive(s, c.authorization, c.xApiKey, "batch", n, TRUE, counted)
  \/ \E c \in clients :
       Arrive(s, c.authorization, c.xApiKey, "usage", 0, TRUE, counted)

\* requests one after the other, from any client, MaxRequests in all
Next ==
  \/ ArriveAny(1, {Client(NoAuth, "")}
                     \cup {Client(NoAuth, k) : k \in {SecretOf(1), "bad"}}
                     \cup {Client(Bearer(SecretOf(1)), "")}, TRUE)
  \/ ApiKeyAuth(1)
  \/ \E clean \in BOOLEAN : TieredRateLimit(1, clean)
  \/ Handler(1)
  \/ \E o \in {"ok", "throws"} : Complete(1, o)
  \/ Deactivate(1)
  \/ Activate(1)
  \/ Tick(MaxTicks)

Spec == Init /\ [][Next]_vars

\* one client presenting key 1 in the x-api-key header, any number of requests
\* (its requests fail the handler's validation, so that the monthly quota
\* never stops it)
NextLimiter ==
  \/ Arrive(1, NoAuth, SecretOf(1), "geocode", 0, FALSE, FALSE)
  \/ ApiKeyAuth(1)
  \/ \E clean \in BOOLEAN : TieredRateLimit(1, clean)
  \/ Handler(1)
  \/ Tick(MaxLimiterTicks)

InitLimiter == InitWith(MonthlyLimits, {Month})

SpecLimiter == InitLimiter /\ [][NextLimiter]_vars

\* GET /v1/usage requests, one after the other, with every header combination
NextExtract ==
  \/ \E c \in {Client(a, x) :
                 a \in {NoAuth, Bearer(SecretOf(1)), Bearer("bad"),
                        Basic(SecretOf(1))},
                 x \in {"", SecretOf(2), "bad"}} :
       Arrive(1, c.authorization, c.xApiKey, "usage", 0, TRUE, TRUE)
  \/ ApiKeyAuth(1)
  \/ Handler(1)

SpecExtract == Init /\ [][NextExtract]_vars

\* requests of key 1 that overlap: a request is handed the lowest slot that
\* holds no request in progress, so that slot s is in use only once s
\* requests were in progress together
Dispatch(s) == \A t \in Slots : t < s => req[t].pc \notin {"idle", "done"}

NextConcurrent ==
  \/ \E s \in Slots :
       Dispatch(s) /\ Arrive(s, NoAuth, SecretOf(1), "geocode", 0, TRUE, TRUE)
  \/ \E s \in Slots : ApiKeyAuth(s)
  \/ \E s \in Slots, clean \in BOOLEAN : TieredRateLimit(s, clean)
  \/ \E s \in Slots : Handler(s)
  \/ \E s \in Slots, o \in {"ok", "throws"} : Complete(s, o)
  \/ Tick(MaxTicks)

SpecConcurrent == Init /\ [][NextConcurrent]_vars

\* the largest number of requests that were in progress together so far
InFlightPeak ==
  LET used == Cardinality({s \in Slots : req[s].pc # "idle"})
  IN IF used = 0 THEN 1 ELSE used

\* requests to POST /v1/geocode and GET /v1/usage, one after the other, with
\* a valid or an unknown key, while the statements of logRequest fail or work
NextLogging ==
  \/ \E k \in {SecretOf(1), "bad"}, ok \in BOOLEAN :
       Arrive(1, NoAuth, k, "geocode", 0, ok, TRUE)
  \/ \E k \in {SecretOf(1), "bad"} :
       Arrive(1, NoAuth, k, "usage", 0, TRUE, TRUE)
  \/ ApiKeyAuth(1)
  \/ TieredRateLimit(1, FALSE)
  \/ Handler(1)
  \/ \E o \in {"ok", "throws"} : Complete(1, o)
  \/ \E f \in {"none", "logInsert", "usageUpdate"} : SetFault(f)

\* key 1 is a free-tier key whose billing period has not ended
InitLogging ==
  InitGate({"free"}, MonthlyLimits, {Month}) /\ ModelInit({DefaultLibrary})

SpecLogging == InitLogging /\ [][NextLogging]_vars

\* one client presenting key 1: POST /v1/geocode requests that fail the
\* handler's validation, and GET /v1/usage requests, which report the
\* limiter's status, over several windows
NextStatus ==
  \/ Arrive(1, NoAuth, SecretOf(1), "geocode", 0, FALSE, FALSE)
  \/ Arrive(1, NoAuth, SecretOf(1), "usage", 0, TRUE, FALSE)
  \/ ApiKeyAuth(1)
  \/ \E clean \in BOOLEAN : TieredRateLimit(1, clean)
  \/ Handler(1)
  \/ Tick(MaxLimiterTicks)

\* key 1 is a free-tier key with quota left for MaxUsage requests
InitStatus ==
  InitGate({"free"}, {MaxUsage}, {Month}) /\ ModelInit({DefaultLibrary})

SpecStatus == InitStatus /\ [][NextStatus]_vars

\* two clients, one per key, whose POST /v1/geocode requests fail the
\* handler's validation, over several windows: any number of requests of
\* key 1 and MaxRequests of key 2; a check purges or not
NextPurge ==
  \/ Arrive(1, NoAuth, SecretOf(1), "geocode", 0, FALSE, FALSE)
  \/ Arrive(1, NoAuth, SecretOf(2), "geocode", 0, FALSE, TRUE)
  \/ ApiKeyAuth(1)
  \/ \E clean \in BOOLEAN : TieredRateLimit(1, clean)
  \/ Handler(1)
  \/ Tick(MaxLimiterTicks)

SpecPurge == InitStatus /\ [][NextPurge]_vars

\* two clients, one per key, whose POST /v1/geocode requests fail the
\* handler's validation, within one window, while an administrator clears
\* limiters
NextClear ==
  \/ Arrive(1, NoAuth, SecretOf(1), "geocode", 0, FALSE, FALSE)
  \/ Arrive(1, NoAuth, SecretOf(2), "geocode", 0, FALSE, TRUE)
  \/ ApiKeyAuth(1)
  \/ TieredRateLimit(1, FALSE)
  \/ Handler(1)
  \/ \E id \in KeyIds : ClearRateLimit(id)

SpecClear == InitStatus /\ [][NextClear]_vars

\* requests of key 1 that overlap and share one limiter key: a hook runs to
\* its first await as one step, and tieredRateLimit calls isWithinRateLimit
\* before any await, so the steps of the requests interleave between hooks
NextLimiterConcurrent ==
  \/ \E s \in Slots :
       Dispatch(s) /\ Arrive(s, NoAuth, SecretOf(1), "geocode", 0, FALSE, FALSE)
  \/ \E s \in Slots : ApiKeyAuth(s)
  \/ \E s \in Slots : TieredRateLimit(s, FALSE)
  \/ \E s \in Slots : Handler(s)
  \/ Tick(MaxOverlapTicks)

\* key 1 is a free-tier key whose billing period has not ended
InitLimiterConcurrent ==
  InitGate({"free"}, MonthlyLimits, {Month}) /\ ModelInit({DefaultLibrary})

SpecLimiterConcurrent ==
  InitLimiterConcurrent /\ [][NextLimiterConcurrent]_vars

\* geocode and reverse requests, one after the other
NextGeocode ==
  \/ \E request \in ({GeocodeRequest(a) : a \in Addresses}), svc \in GeocodeOutcomes :
       GeocodeRoute(request, svc)
  \/ \E code \in ReverseCodes, rsvc \in ReverseOutcomes :
       ReverseRoute(ReverseGeocodeRequest(code), rsvc)
  \/ TickCache

InitGeocode ==
  /\ InitGate({"free"}, MonthlyLimits, {Month})
  /\ ModelInit({DefaultLibrary,
                [DefaultLibrary EXCEPT ![Code6] = "Invalid DIGIPIN"]})

SpecGeocode == InitGeocode /\ [][NextGeocode]_vars

\* geocode requests for which the service returns several candidates
NextAlternatives ==
  \E a \in {<<>>, <<"a">>},
     r \in UNION {{<<"p1">> \o r : r \in [1..n -> Points \ {"p1"}]} :
                    n \in 0..(MaxCandidates - 1)} :
    GeocodeRoute(GeocodeRequest(a), ServiceReturns(r))

SpecAlternatives == InitLogging /\ [][NextAlternatives]_vars

\* geocode requests answered through GeocodingService.geocode
NextService ==
  \E response \in (UNION {[1..n -> ProviderFields] : n \in 0..MaxItemsReturned}) :
    /\ last.seq < MaxServiceCalls
    /\ GeocodeRoute(GeocodeRequest(<<"a">>), serviceGeocode(response))

SpecService == InitLogging /\ [][NextService]_vars

\* batches of 0 to MaxBatch entries, and batches of MaxItems and
\* MaxItems + 1 entries that meet one service outcome throughout
NextBatch ==
  \/ \E n \in 0..MaxBatch :
       \E entries \in [1..n -> BatchEntries] :
         BatchGeocodeCall([i \in 1..n |-> entries[i].input],
                          [i \in 1..n |-> entries[i].svc])
  \/ \E n \in {MaxItems, MaxItems + 1} :
       BatchGeocodeCall(Rep(GeocodeRequest(<<"a">>), n),
                        Rep(ServiceReturns(<<"p1">>), n))
  \/ TickCache

SpecBatch == InitGeocode /\ [][NextBatch]_vars

\* POST /v1/batch requests of key 1, one after the other, with 0 to MaxBatch
\* addresses or BurstFree + 1 of them, through the hooks, the handler and
\* the orchestrator
NextBatchRoute ==
  \/ \E n \in (0..MaxBatch) \cup {BurstFree + 1} :
       Arrive(1, NoAuth, SecretOf(1), "batch", n, TRUE, TRUE)
  \/ ApiKeyAuth(1)
  \/ TieredRateLimit(1, FALSE)
  \/ Handler(1)
  \/ \E n \in 1..MaxBatch :
       \E entries \in [1..n -> BatchEntries] :
         BatchRoute(1, [i \in 1..n |-> entries[i].input],
                    [i \in 1..n |-> entries[i].svc])
  \/ BatchRoute(1, Rep(GeocodeRequest(<<"a">>), BurstFree + 1),
                Rep(ServiceReturns(<<"p1">>), BurstFree + 1))

SpecBatchRoute == InitStatus /\ [][NextBatchRoute]_vars

\* validate calls, one after the other, against any decoder
NextValidate ==
  \/ \E digipin \in {<<>>, <<" ", " ">>, <<"A", "B">>, <<"A", "!">>,
                       Rep("!", MinCodeLen), Code6,
                       <<" ">> \o Code6 \o <<" ">>, Code20,
                       Rep("A", MaxCodeLen + 1)} : ValidateCall(digipin)
  \/ TickCache

InitValidate ==
  /\ InitGate({"free"}, MonthlyLimits, {Month})
  /\ ModelInit([DecodableCodes -> {"ok", "Invalid DIGIPIN", "throws"}])

SpecValidate == InitValidate /\ [][NextValidate]_vars

\* geocode requests that carry a city, their properties in either order
NextFingerprint ==
  \/ \E request \in CityRequests,
        svc \in {ServiceThrows, ServiceReturns(<<"p1">>),
                 ServiceReturns(<<"p2">>)} :
       GeocodeRoute(request, svc)
  \/ \E code \in ReverseCodes, rsvc \in ReverseOutcomes :
       ReverseRoute(ReverseGeocodeRequest(code), rsvc)
  \/ TickCache

SpecFingerprint == InitGeocode /\ [][NextFingerprint]_vars

\* geocode, reverse and validate calls on one DigiPinModel, in any order
NextCache ==
  \/ \E address \in {<<"a">>, <<"b">>}, svc \in GeocodeOutcomes :
       GeocodeRoute(GeocodeRequest(address), svc)
  \/ \E code \in ReverseCodes, rsvc \in ReverseOutcomes :
       ReverseRoute(ReverseGeocodeRequest(code), rsvc)
  \/ \E digipin \in {Code6, <<"A", "B">>} : ValidateCall(digipin)
  \/ TickCache

SpecCache == InitGeocode /\ [][NextCache]_vars

\* the operations that store their result, with a durable cache whose writes
\* may fail
NextStore ==
  \/ \E svc \in {ServiceThrows, ServiceReturns(<<"p1">>)} :
       GeocodeRoute(GeocodeRequest(<<"a">>), svc)
  \/ \E rsvc \in ReverseOutcomes :
       ReverseRoute(ReverseGeocodeRequest(Code6), rsvc)
  \/ \E request \in ({CoordinatesRequest(p) : p \in {"p1", "pOut", "pLat"}}) : CoordinatesRoute(request)
  \/ \E digipin \in {Code6, <<"A", "B">>} : ValidateCall(digipin)
  \/ \E f \in {"none", "cacheWrite"} : SetFault(f)
  \/ TickCache

SpecStore == InitGeocode /\ [][NextStore]_vars

\* the three cache calls on one model instance, in any order, as time passes
NextCacheMaps ==
  \/ \E k \in CacheKeys, v \in ({"p1", "p2"}), ttl \in ({ValidateTtlMinutes, GeocodeTtlMinutes}) :
       SetCachedResult(k, v, ttl)
  \/ \E k \in CacheKeys : GetCachedResult(k)
  \/ ClearExpiredCache
  \/ TickCache

SpecCacheMaps == InitGeocode /\ [][NextCacheMaps]_vars

\* the digipin_cache row that storeInDatabaseCache writes at time t
durableRow(type, input, output, t) ==
  [cache_type |-> type, input_data |-> input, output_data |-> output,
   expires_at |-> t + DurableTtlMinutes * 60]

\* the table as earlier processes may have left it: empty, or holding the
\* geocode row of address "a" (resolved to p1 or to p2) or the validate row
\* of Code6, each written at time 0
InitialTables ==
  {EmptyMap}
  \cup {MapSet(EmptyMap, generateCacheKey("geocode", GeocodeRequest(<<"a">>)),
               durableRow("geocode", GeocodeRequest(<<"a">>),
                          [digipin |-> getDIGIPINFromLatLon(p),
                           coordinates |-> p], 0)) : p \in {"p1", "p2"}}
  \cup {MapSet(EmptyMap, generateCacheKey("validate", ValidateInput(Code6)),
               durableRow("validate", ValidateInput(Code6),
                          ValidationResponse(TRUE, Code6, <<>>), 0))}

\* a process start: the constructor's empty maps over the table it finds
InitDurable ==
  /\ InitGate({"free"}, MonthlyLimits, {Month})
  /\ cache = EmptyMap
  /\ cacheExpiry = EmptyMap
  /\ digipin_cache \in InitialTables
  /\ decoder = DefaultLibrary
  /\ last = NoCall
  /\ fault = "none"

\* the inputs of the requests made over the table
DurableAddresses == {<<"a">>}
DurableServices == {ServiceThrows, ServiceReturns(<<"p1">>)}
\* the five operations, the sweep, database failures and the clock
NextDurable ==
  \/ /\ last.seq < MaxDurableCalls
     /\ \/ \E a \in DurableAddresses, svc \in DurableServices :
             GeocodeRoute(GeocodeRequest(a), svc)
        \/ \E rsvc \in ({"No address found", "address"}) :
             ReverseRoute(ReverseGeocodeRequest(Code6), rsvc)
        \/ \E p \in ({"p1"}) : CoordinatesRoute(CoordinatesRequest(p))
        \/ \E digipin \in ({Code6}) : ValidateCall(digipin)
        \/ \E a \in DurableAddresses, svc \in DurableServices :
             BatchGeocodeCall(<<GeocodeRequest(a)>>, <<svc>>)
  \/ ClearExpiredCache
  \/ \E f \in {"none", "cacheWrite"} : SetFault(f)
  \/ now < MaxDurableTicks * CacheTick /\ TickCache

SpecDurable == InitDurable /\ [][NextDurable]_vars

\* ================================================================= claims

\* C1: at the end of apiKeyAuth for a request whose key is found active, the
\* request is rejected with 429 USAGE_LIMIT_EXCEEDED if and only if the key's
\* tier is not enterprise and its current_usage (after rollover) has reached
\* monthly_limit; a request rejected this way is finished without having
\* reached the rate limiter or an orchestrator operation.
C1_QuotaCheck ==
  /\ [][\A s \in Slots :
          LET found == lookupActiveKey(api_keys, hashApiKey(extractApiKey(req[s])))
          IN (req[s].pc = "apiKeyAuth" /\ req'[s].pc # "apiKeyAuth"
              /\ extractApiKey(req[s]) # "" /\ found # {})
             => \A id \in found :
                  (req'[s].code = "USAGE_LIMIT_EXCEEDED")
                  <=> (api_keys'[id].tier # "enterprise"
                       /\ api_keys'[id].current_usage
                            >= api_keys'[id].monthly_limit)]_vars
  /\ [](\A s \in Slots :
          req[s].code = "USAGE_LIMIT_EXCEEDED"
          => /\ req[s].pc = "done" /\ req[s].status = 429
             /\ ~req[s].reachedLimiter /\ req[s].invoked = "none")

C1_Witness ==
  \E s \in Slots :
    /\ req[s].pc = "done" /\ req[s].code = "USAGE_LIMIT_EXCEEDED"
    /\ \E id \in KeyIds :
         /\ extractApiKey(req[s]) = SecretOf(id)
         /\ api_keys[id].tier # "enterprise"
         /\ api_keys[id].current_usage >= api_keys[id].monthly_limit

\* C2: a rate-limit check made with no entry or an expired one is allowed and
\* opens a window with count 1 ending at now + windowMs; a check made in a
\* live window is allowed while fewer than L checks were admitted in that
\* window, and rejected with 429 RATE_LIMIT_EXCEEDED, remaining 0, afterwards.
C2_Windowing ==
  [][\A s \in Slots :
       (req[s].pc = "tieredRateLimit" /\ req'[s].pc # "tieredRateLimit")
       => LET id == req[s].apiKeyInfo
              key == getRateLimitKey(id)
              L == DEFAULT_RATE_LIMITS(api_keys[id].tier).requests
              live == IF key \in DOMAIN rateLimitStore
                      THEN now <= rateLimitStore[key].resetTime ELSE FALSE
              allowed == req'[s].pc = "handler"
              rejected == /\ req'[s].pc = "done" /\ req'[s].status = 429
                          /\ req'[s].code = "RATE_LIMIT_EXCEEDED"
                          /\ req'[s].remaining = 0
          IN IF ~live
             THEN /\ allowed
                  /\ rateLimitStore'[key] =
                       [count |-> 1, resetTime |-> now + Window]
             ELSE IF admitted[id] < L THEN allowed ELSE rejected]_vars

C2_Witness ==
  \E s \in Slots :
    /\ req[s].pc = "done" /\ req[s].code = "RATE_LIMIT_EXCEEDED"
    /\ admitted[req[s].apiKeyInfo] = FreeRequests

\* C3 (as claimed): a batch request rejected with BURST_LIMIT_EXCEEDED never
\* has batchGeocode invoked and never attempts a second response.
C3_BurstRejectsWhole ==
  \A s \in Slots :
    req[s].code = "BURST_LIMIT_EXCEEDED"
    => req[s].invoked # "batchGeocode" /\ req[s].sendAttempts = 1

\* C4 (as claimed): every completed request has exactly one request_logs row.
C4_ExactlyOneRow ==
  \A s \in Slots : req[s].pc = "done" => Len(request_logs[s]) = 1

\* C5: a step in which a request of key id completes with a status below 400
\* adds exactly 1 to that key's current_usage, and a step that neither
\* completes a request of the key nor rolls its period over leaves its
\* current_usage unchanged; hence N such consecutive requests add exactly N.
C5_QuotaMonotonicity ==
  [][\A id \in KeyIds :
       LET completes(s) == /\ req[s].pc # "done" /\ req'[s].pc = "done"
                           /\ req'[s].apiKeyInfo = id
           rollover == \E s \in Slots :
                         /\ req[s].pc = "apiKeyAuth"
                         /\ req'[s].pc # "apiKeyAuth"
                         /\ extractApiKey(req[s]) = SecretOf(id)
                         /\ now > api_keys[id].usage_reset_date
       IN /\ (\E s \in Slots : completes(s) /\ req'[s].status < 400)
             => api_keys'[id].current_usage = api_keys[id].current_usage + 1
          /\ (~rollover /\ ~\E s \in Slots : completes(s))
             => api_keys'[id].current_usage = api_keys[id].current_usage]_vars

C5_Witness ==
  \E s \in Slots, id \in KeyIds :
    /\ req[s].pc = "done" /\ req[s].status = 200 /\ req[s].apiKeyInfo = id
    /\ req[s].rolledFrom = -1
    /\ api_keys[id].current_usage = 2
    /\ served = 2

\* C6 (as claimed): when a request completes, the current_usage of its key
\* grows by 1 if it has an authenticated key and was answered with a status
\* below 400, and the current_usage of every key is unchanged otherwise.
C6_IncrementIffSuccess ==
  [][\A s \in Slots :
       (req'[s].pc = "done" /\ req'[s] # req[s])
       => \A id \in KeyIds :
            api_keys'[id].current_usage =
              IF req'[s].apiKeyInfo = id /\ req'[s].status < 400
              THEN api_keys[id].current_usage + 1
              ELSE api_keys[id].current_usage]_vars

\* C7: apiKeyAuth for an active key at now > usage_reset_date leaves
\* current_usage 0 and usage_reset_date one month ahead of now, and the
\* request passes the quota check; at now <= usage_reset_date it leaves both
\* fields as they were.
C7_Rollover ==
  [][\A s \in Slots, id \in KeyIds :
       (/\ req[s].pc = "apiKeyAuth" /\ req'[s].pc # "apiKeyAuth"
        /\ extractApiKey(req[s]) = SecretOf(id) /\ api_keys[id].is_active)
       => IF now > api_keys[id].usage_reset_date
          THEN /\ api_keys'[id].current_usage = 0
               /\ api_keys'[id].usage_reset_date = now + Month
               /\ req'[s].apiKeyInfo = id
               /\ req'[s].pc \in {"tieredRateLimit", "handler"}
          ELSE /\ api_keys'[id].current_usage = api_keys[id].current_usage
               /\ api_keys'[id].usage_reset_date
                    = api_keys[id].usage_reset_date]_vars

C7_Witness ==
  \E s \in Slots, id \in KeyIds :
    /\ req[s].apiKeyInfo = id
    /\ req[s].pc = "tieredRateLimit"
    /\ api_keys[id].tier # "enterprise"
    /\ req[s].rolledFrom >= api_keys[id].monthly_limit
    /\ api_keys[id].current_usage = 0
    /\ api_keys[id].usage_reset_date = now + Month

\* C8 (as claimed): an enterprise key's request is refused by a rate limiter
\* only when EnterpriseRequests requests of the key were admitted in the
\* key's current window.
C8_EnterpriseTableValue ==
  \A s \in Slots, id \in KeyIds :
    (/\ req[s].pc = "done" /\ req[s].status = 429
     /\ req[s].code \in {"Too Many Requests", "RATE_LIMIT_EXCEEDED"}
     /\ extractApiKey(req[s]) = SecretOf(id)
     /\ api_keys[id].tier = "enterprise")
    => LET key == getRateLimitKey(id)
       IN IF key \in DOMAIN rateLimitStore
          THEN /\ now <= rateLimitStore[key].resetTime
               /\ admitted[id] >= EnterpriseRequests
          ELSE FALSE

\* C9 (as claimed): a request answered MISSING_API_KEY or INVALID_API_KEY got
\* status 401 and has a request_logs row with api_key_id = null.
C9_UnauthenticatedLogged ==
  \A s \in Slots :
    (req[s].pc = "done" /\ req[s].code \in {"MISSING_API_KEY", "INVALID_API_KEY"})
    => /\ req[s].status = 401
       /\ request_logs[s] = <<[api_key_id |-> NULL, response_status |-> 401]>>

\* C10: apiKeyAuth for a request presenting the secret of a key that is
\* inactive at that moment answers 401 INVALID_API_KEY, leaves the key's
\* current_usage and usage_reset_date unchanged, and the request is finished
\* without reaching the rate limiter or the orchestrator.
C10_InactiveRejected ==
  [][\A s \in Slots, id \in KeyIds :
       (/\ req[s].pc = "apiKeyAuth" /\ req'[s].pc # "apiKeyAuth"
        /\ extractApiKey(req[s]) = SecretOf(id) /\ ~api_keys[id].is_active)
       => /\ req'[s].pc = "done" /\ req'[s].status = 401
          /\ req'[s].code = "INVALID_API_KEY"
          /\ req'[s].apiKeyInfo = NULL
          /\ ~req'[s].reachedLimiter /\ req'[s].invoked = "none"
          /\ api_keys'[id] = api_keys[id]]_vars

C10_Witness ==
  \E s \in Slots, id \in KeyIds :
    /\ req[s].pc = "done" /\ req[s].code = "INVALID_API_KEY"
    /\ extractApiKey(req[s]) = SecretOf(id)
    /\ ~api_keys[id].is_active
    /\ now > api_keys[id].usage_reset_date
    /\ served = 2

\* C11: apiKeyAuth looks up the hash of the bearer token when the request has
\* a bearer-style Authorization header, whatever its x-api-key header says,
\* and the hash of the x-api-key value exactly when it has no bearer-style
\* Authorization header; it answers MISSING_API_KEY if and only if neither
\* header supplies a key.
C11_KeyExtraction ==
  [][\A s \in Slots :
       (req[s].pc = "apiKeyAuth" /\ req'[s].pc # "apiKeyAuth")
       => LET bearer == req[s].authorization.scheme = "Bearer"
              supplied == IF bearer THEN req[s].authorization.token
                          ELSE req[s].xApiKey
              neither == /\ (bearer => req[s].authorization.token = "")
                         /\ req[s].xApiKey = ""
              found == lookupActiveKey(api_keys, hashApiKey(supplied))
          IN /\ (req'[s].code = "MISSING_API_KEY") <=> neither
             /\ (req'[s].code = "INVALID_API_KEY")
                  <=> (~neither /\ found = {})
             /\ (~neither /\ found # {})
                  => \/ req'[s].apiKeyInfo \in found
                     \/ /\ req'[s].code = "USAGE_LIMIT_EXCEEDED"
                        /\ \E id \in found : usageLimitExceeded(api_keys'[id])]_vars

C11_Witness ==
  \E s \in Slots :
    /\ req[s].authorization = Bearer(SecretOf(1))
    /\ req[s].xApiKey = SecretOf(2)
    /\ req[s].apiKeyInfo = 1
    /\ req[s].pc = "done" /\ req[s].status = 200

C13_BatchCounts ==
  (last.op = "batchGeocode" /\ Len(last.input) \in 1..MaxItems)
  => /\ last.ok
     /\ LET r == last.response
            failed == {i \in 1..Len(r.results) :
                         "error" \in DOMAIN r.results[i].result}
        IN /\ r.totalProcessed = r.successCount + r.errorCount
           /\ r.totalProcessed = Len(last.input)
           /\ r.totalProcessed = Len(r.results)
           /\ r.errorCount = Cardinality(failed)
           /\ r.successCount = Len(r.results) - Cardinality(failed)

C13_Witness ==
  /\ last.op = "batchGeocode" /\ last.ok
  /\ Len(last.input) = 2
  /\ last.response.successCount = 1
  /\ last.response.errorCount = 1

\* C14: in the response of a batchGeocode call with 1 to MaxItems entries,
\* results[i].input is the i-th entry; results[i].result is {error} exactly
\* when entry i has a blank address, or is not in the cache and the
\* geocoding service throws or finds nothing for it, whatever happens to the
\* other entries; and the call itself returns.
C14_BatchIsolation ==
  [][(/\ last'.op = "batchGeocode" /\ last'.seq = last.seq + 1
      /\ Len(last'.input) \in 1..MaxItems)
     => /\ last'.ok
        /\ LET input == last'.input
               svcs == last'.svc
               results == last'.response.results
               failed(i) == "error" \in DOMAIN results[i].result
               cacheKey(i) == generateCacheKey("geocode", input[i])
               cached(i) ==
                 \/ IF cacheKey(i) \in DOMAIN cache
                    THEN now <= cacheExpiry[cacheKey(i)] ELSE FALSE
                 \/ \E j \in 1..(i - 1) : input[j] = input[i] /\ ~failed(j)
               cannot(i) ==
                 IF trim(input[i].address) = <<>> THEN TRUE
                 ELSE IF cached(i) THEN FALSE
                 ELSE svcs[i].threw \/ Len(svcs[i].results) = 0
           IN /\ Len(results) = Len(input)
              /\ \A i \in 1..Len(results) :
                   /\ results[i].input = input[i]
                   /\ failed(i) <=> cannot(i)
                   /\ failed(i) => DOMAIN results[i].result = {"error"}
                   /\ ~failed(i) => "digipin" \in DOMAIN results[i].result]_vars

C14_Witness ==
  /\ last.op = "batchGeocode" /\ last.ok
  /\ Len(last.input) = 2
  /\ last.input[1] # last.input[2]
  /\ "error" \in DOMAIN last.response.results[1].result
  /\ "digipin" \in DOMAIN last.response.results[2].result
  /\ last.response.results[2].input = last.input[2]

\* C15 (as claimed): a geocode call whose primary candidate the encoder
\* cannot encode fails with the encoding failure, no geocode call returns a
\* response whose digipin is not a grid code, and no such response is cached.
C15_EncodingFailure ==
  /\ (last.op = "geocode" /\ last.ok) => IsGridCode(last.response.digipin)
  /\ (/\ last.op = "geocode" /\ ~last.hit
      /\ trim(last.input.address) # <<>> /\ ~last.svc.threw
      /\ (IF Len(last.svc.results) > 0
          THEN ~IsGridCode(getDIGIPINFromLatLon(last.svc.results[1]))
          ELSE FALSE))
     => /\ ~last.ok
        /\ last.error = "Geocoding failed: Unable to generate DigiPin from geocoded coordinates"
  /\ \A k \in DOMAIN cache :
       k[1] = "geocode" => IsGridCode(cache[k].digipin)

\* C16 (as claimed): a geocode request for which the service returns no
\* candidate, and a reverse request for which it finds no address, are
\* answered with status 400 and a code of their own; a request whose service
\* call fails upstream is answered with status 500.
C16_NotFoundIs400 ==
  LET reached == /\ last.op \in {"geocode", "reverse"} /\ ~last.hit
                 /\ last.reply.code \notin {"MISSING_ADDRESS", "MISSING_DIGIPIN"}
      nothing == IF last.op = "geocode"
                 THEN ~last.svc.threw /\ Len(last.svc.results) = 0
                 ELSE /\ getLatLonFromDIGIPIN(decoder, trim(last.input.digipin)) = "ok"
                      /\ last.svc = "No address found"
      upstream == IF last.op = "geocode" THEN last.svc.threw
                  ELSE /\ getLatLonFromDIGIPIN(decoder, trim(last.input.digipin)) = "ok"
                       /\ last.svc = "throws"
  IN reached
     => /\ nothing => /\ last.reply.status = 400
                      /\ last.reply.code \notin {"GEOCODING_ERROR",
                                                 "REVERSE_GEOCODING_ERROR"}
        /\ upstream => last.reply.status = 500

\* the errors of a validation response, absent errors being none
errorsOf(response) ==
  IF "errors" \in DOMAIN response THEN response.errors ELSE <<>>

\* C17: every validate call, whatever its input and whatever the decoder
\* does (throwing included), returns a response with isValid and digipin, in
\* which isValid is true exactly when errors is absent or empty.
C17_ValidateStructured ==
  last.op = "validate"
  => /\ last.ok
     /\ {"isValid", "digipin"} \subseteq DOMAIN last.response
     /\ last.response.isValid \in BOOLEAN
     /\ last.response.isValid <=> (errorsOf(last.response) = <<>>)

C17_Witness ==
  /\ last.op = "validate" /\ last.decodeAttempted
  /\ decoder[trim(last.input)] = "throws"
  /\ ~last.response.isValid
  /\ errorsOf(last.response) = <<SemanticError>>

\* C18: a validate call that computes its result for a code that is not
\* blank reports the length error exactly when the trimmed length is outside
\* MinCodeLen..MaxCodeLen, the character error exactly when a character is
\* outside the allowed class, in that order; it calls the decoder if and only
\* if neither is reported, and reports the semantic error exactly when the
\* decoder was called and did not accept the code.
C18_ValidateChecks ==
  (last.op = "validate" /\ trim(last.input) # <<>> /\ ~last.hit)
  => LET code == trim(last.input)
         badLength == Len(code) \notin MinCodeLen..MaxCodeLen
         badChars == \E i \in 1..Len(code) : code[i] \notin CodeChars
         rejected == IF code \in DOMAIN decoder THEN decoder[code] # "ok"
                     ELSE TRUE
         semantic == ~badLength /\ ~badChars /\ rejected
     IN /\ errorsOf(last.response) =
             (IF badLength THEN <<LengthError>> ELSE <<>>)
             \o (IF badChars THEN <<CharsError>> ELSE <<>>)
             \o (IF semantic THEN <<SemanticError>> ELSE <<>>)
        /\ last.decodeAttempted <=> (~badLength /\ ~badChars)
        /\ last.response.isValid <=> (~badLength /\ ~badChars /\ ~rejected)

C18_Witness ==
  /\ last.op = "validate" /\ ~last.hit
  /\ last.input = <<"A", "B">>
  /\ ~last.response.isValid
  /\ last.response.errors = <<LengthError>>
  /\ ~last.decodeAttempted

\* C19: a validate call that follows a validate call with the same code
\* returns the same isValid and the same errors as that call, whether it is
\* answered from the cache or computed again after the entry expired.
C19_ValidateIdempotent ==
  [][(/\ last.op = "validate" /\ last'.op = "validate"
      /\ last'.seq = last.seq + 1 /\ last'.input = last.input)
     => /\ last'.response.isValid = last.response.isValid
        /\ errorsOf(last'.response) = errorsOf(last.response)]_vars

C19_Witness ==
  /\ last.op = "validate" /\ last.repeated
  /\ trim(last.input) # <<>>
  /\ ~last.hit /\ last.decodeAttempted

\* C20: getCachedResult, on any entry of the cache at any time, returns the
\* stored value only while now is not later than the entry's expiry, and
\* otherwise reports a miss and leaves neither the value nor the expiry in
\* the maps; a geocode call is answered from the cache only by an entry that
\* has not expired.
C20_NoExpiredRead ==
  /\ [](\A k \in DOMAIN cache \cup DOMAIN cacheExpiry :
          LET got == getCachedResult(Model, k, now)
          IN IF now > cacheExpiry[k]
             THEN /\ ~got.hit
                  /\ k \notin DOMAIN got.m.cache
                  /\ k \notin DOMAIN got.m.cacheExpiry
             ELSE /\ got.hit /\ got.value = cache[k] /\ got.m = Model)
  /\ [][(last'.seq = last.seq + 1 /\ last'.op = "geocode" /\ last'.hit)
        => LET k == generateCacheKey("geocode", last'.input)
           IN /\ k \in DOMAIN cacheExpiry
              /\ now <= cacheExpiry[k]
              /\ last'.response = cache[k]]_vars

C20_Witness ==
  /\ last.op = "geocode" /\ ~last.ok
  /\ trim(last.input.address) # <<>>
  /\ LET k == generateCacheKey("geocode", last.input)
     IN /\ k \in DOMAIN digipin_cache
        /\ now > digipin_cache[k].expires_at
        /\ k \notin DOMAIN cache
        /\ k \notin DOMAIN cacheExpiry

\* two objects hold the same field/value pairs
SameFields(x, y) ==
  LET fields(o) == {o.keys[i] : i \in 1..Len(o.keys)}
  IN /\ fields(x) = fields(y)
     /\ \A f \in fields(x) : x[f] = y[f]

\* C21 (as claimed): two stored entries have the same fingerprint exactly
\* when they have the same type and inputs holding the same field/value
\* pairs, in whatever order the fields are listed; and a geocode call that
\* follows a successful geocode call whose input held the same field/value
\* pairs, within the time-to-live, is answered from the cache.
C21_Fingerprint ==
  /\ [](\A k1, k2 \in DOMAIN digipin_cache :
          (k1 = k2) <=> (/\ digipin_cache[k1].cache_type
                              = digipin_cache[k2].cache_type
                         /\ SameFields(digipin_cache[k1].input_data,
                                       digipin_cache[k2].input_data)))
  /\ [][(/\ last.op = "geocode" /\ last.ok
         /\ last'.op = "geocode" /\ last'.seq = last.seq + 1
         /\ SameFields(last.input, last'.input)
         /\ now < last.at + GeocodeTtlMinutes * 60)
        => last'.hit]_vars

\* the fingerprint under which a call looks its input up
keyOfCall(call) ==
  IF call.op = "validate"
  THEN generateCacheKey("validate", ValidateInput(call.input))
  ELSE IF call.op = "coordinatesToDigiPin"
  THEN generateCacheKey("coordinates-to-digipin", call.input)
  ELSE generateCacheKey(call.op, call.input)

\* C22 (as claimed): a geocode, reverse or validate call that computes and
\* stores its result leaves, under the call's fingerprint, an in-process
\* entry and a digipin_cache row that both expire GeocodeTtlMinutes after the
\* call for geocode and reverse, and ValidateTtlMinutes after it for validate.
C22_TtlPolicy ==
  [][(/\ last'.seq = last.seq + 1 /\ last'.ok /\ ~last'.hit
      /\ last'.op \in {"geocode", "reverse", "validate"}
      /\ keyOfCall(last') \in DOMAIN cache')
     => LET k == keyOfCall(last')
            ttl == IF last'.op = "validate" THEN ValidateTtlMinutes
                   ELSE GeocodeTtlMinutes
        IN /\ cacheExpiry'[k] = now + ttl * 60
           /\ k \in DOMAIN digipin_cache'
           /\ digipin_cache'[k].expires_at = now + ttl * 60]_vars

\* C27: a geocode, coordinatesToDigiPin, reverseGeocode or validate call that
\* misses the cache, computes its response and then fails to write the
\* digipin_cache row (the database fails the statement, or the table refuses
\* the row's cache_type) still returns the computed response, is answered
\* 200, and leaves that response in the in-process cache with its expiry;
\* no row is written.
C27_DurableWriteFailure ==
  [][LET call == last'
         k == keyOfCall(call)
         miss == IF k \in DOMAIN cache THEN now > cacheExpiry[k] ELSE TRUE
         computes ==
           CASE call.op = "geocode" ->
                  /\ trim(call.input.address) # <<>> /\ ~call.svc.threw
                  /\ (IF Len(call.svc.results) > 0
                      THEN getDIGIPINFromLatLon(call.svc.results[1]) # ""
                      ELSE FALSE)
             [] call.op = "reverse" ->
                  /\ trim(call.input.digipin) # <<>>
                  /\ getLatLonFromDIGIPIN(decoder, trim(call.input.digipin))
                       = "ok"
                  /\ call.svc = "address"
             [] call.op = "coordinatesToDigiPin" ->
                  /\ call.input.latitude # "pLat"
                  /\ IsGridCode(getDIGIPINFromLatLon(call.input.latitude))
             [] call.op = "validate" -> trim(call.input) # <<>>
             [] OTHER -> FALSE
         refused == call.op = "coordinatesToDigiPin"
         ttl == IF call.op = "validate" THEN ValidateTtlMinutes
                ELSE GeocodeTtlMinutes
     IN (/\ call.seq = last.seq + 1 /\ computes /\ miss
         /\ (fault = "cacheWrite" \/ refused))
        => /\ call.ok /\ ~call.hit
           /\ k \in DOMAIN cache' /\ cache'[k] = call.response
           /\ cacheExpiry'[k] = now + ttl * 60
           /\ digipin_cache' = digipin_cache
           /\ IF call.op = "validate"
              THEN \A i \in 1..Len(errorsOf(call.response)) :
                     errorsOf(call.response)[i]
                       \in {LengthError, CharsError, SemanticError}
              ELSE call.reply.status = 200]_vars

C27_Witness ==
  /\ last.op = "coordinatesToDigiPin" /\ last.ok /\ ~last.hit
  /\ last.reply.status = 200
  /\ fault = "cacheWrite"
  /\ keyOfCall(last) \in DOMAIN cache
  /\ keyOfCall(last) \notin DOMAIN digipin_cache

\* C28: a geocode, reverse or validate call whose fingerprint has an
\* unexpired in-process entry returns exactly the stored response, without
\* calling the geocoding service or the decoder, and leaves the stored
\* values, their expiries and the durable rows as they were.
C28_CacheHit ==
  [][LET call == last'
         k == keyOfCall(call)
         live == IF k \in DOMAIN cache THEN now <= cacheExpiry[k] ELSE FALSE
     IN (/\ call.seq = last.seq + 1
         /\ call.op \in {"geocode", "reverse", "validate"}
         /\ live)
        => /\ call.ok /\ call.hit
           /\ call.response = cache[k]
           /\ ~call.called
           /\ call.op = "validate" => ~call.decodeAttempted
           /\ call.op # "validate" => call.reply.status = 200
           /\ cache' = cache
           /\ cacheExpiry' = cacheExpiry
           /\ digipin_cache' = digipin_cache]_vars

C28_Witness ==
  /\ last.op = "geocode" /\ last.hit /\ last.ok
  /\ last.svc.threw /\ ~last.called
  /\ last.at > 0
  /\ last.response = cache[keyOfCall(last)]

\* C23 (as claimed): a request reaches the rate limiter only with an
\* authenticated key and an orchestrator operation only after the rate
\* limiter; a request answered MISSING_API_KEY, INVALID_API_KEY or
\* USAGE_LIMIT_EXCEEDED has not reached the rate limiter and its step leaves
\* the rate-limit store as it was; and a request rejected by authentication,
\* quota, rate limit, burst limit or input validation has no orchestrator
\* operation invoked.
C23_GateOrder ==
  /\ [](\A s \in Slots :
          /\ req[s].reachedLimiter => req[s].apiKeyInfo # NULL
          /\ (req[s].invoked # "none")
               => (req[s].reachedLimiter /\ req[s].apiKeyInfo # NULL)
          /\ (req[s].code \in {"MISSING_API_KEY", "INVALID_API_KEY",
                               "USAGE_LIMIT_EXCEEDED"})
               => ~req[s].reachedLimiter
          /\ (req[s].code \in {"MISSING_API_KEY", "INVALID_API_KEY",
                               "USAGE_LIMIT_EXCEEDED", "RATE_LIMIT_EXCEEDED",
                               "BURST_LIMIT_EXCEEDED", "MISSING_ADDRESS",
                               "MISSING_ADDRESSES", "BATCH_SIZE_EXCEEDED"})
               => req[s].invoked = "none")
  /\ [][\A s \in Slots :
          (req[s].pc = "apiKeyAuth" /\ req'[s].pc = "done")
          => rateLimitStore' = rateLimitStore]_vars

\* C29 (as claimed): every request_logs row of a finished request holds, as
\* response_status, the status that was sent to the caller.
C29_LoggedStatusIsSent ==
  \A s \in Slots :
    req[s].pc = "done"
    => \A i \in 1..Len(request_logs[s]) :
         request_logs[s][i].response_status = req[s].status

\* C30: every rate-limit store entry of an API key has 1 <= count <= the
\* tier's limit; the entry of a live window keeps its resetTime whatever
\* happens (an admitted check adds one to count, a rejected check leaves count
\* as it was), and an entry that is created or replaced gets count 1 and
\* resetTime = the time of that check + windowMs.
C30_StoreEntry ==
  /\ [](\A id \in KeyIds :
          LET key == getRateLimitKey(id)
              L == DEFAULT_RATE_LIMITS(api_keys[id].tier).requests
          IN key \in DOMAIN rateLimitStore
             => /\ rateLimitStore[key].count >= 1
                /\ rateLimitStore[key].count <= L
                /\ rateLimitStore[key].resetTime <= now + Window)
  /\ [][\A id \in KeyIds :
          LET key == getRateLimitKey(id)
              live == IF key \in DOMAIN rateLimitStore
                      THEN now <= rateLimitStore[key].resetTime ELSE FALSE
              rejected == \E s \in Slots :
                            /\ req[s].pc = "tieredRateLimit"
                            /\ req[s].apiKeyInfo = id
                            /\ req'[s].code = "RATE_LIMIT_EXCEEDED"
          IN IF live
             THEN /\ key \in DOMAIN rateLimitStore'
                  /\ rateLimitStore'[key].resetTime
                       = rateLimitStore[key].resetTime
                  /\ rateLimitStore'[key].count
                       \in {rateLimitStore[key].count,
                            rateLimitStore[key].count + 1}
                  /\ rejected
                     => rateLimitStore'[key].count = rateLimitStore[key].count
             ELSE (IF key \in DOMAIN rateLimitStore'
                   THEN IF key \in DOMAIN rateLimitStore
                        THEN rateLimitStore'[key] # rateLimitStore[key]
                        ELSE TRUE
                   ELSE FALSE)
                  => rateLimitStore'[key]
                       = [count |-> 1, resetTime |-> now + Window]]_vars

\* a check was rejected in a live window that was opened earlier and is full
C30_Witness ==
  \E s \in Slots :
    LET key == getRateLimitKey(req[s].apiKeyInfo)
    IN /\ req[s].pc = "done" /\ req[s].code = "RATE_LIMIT_EXCEEDED"
       /\ key \in DOMAIN rateLimitStore
       /\ rateLimitStore[key].count = FreeRequests
       /\ rateLimitStore[key].resetTime < now + Window
       /\ now <= rateLimitStore[key].resetTime

\* C24: with requests of one key in progress together and their hooks
\* interleaved in any order, the checks admitted in one window never exceed
\* the tier's limit, and the stored count of a live window equals the number
\* of checks admitted in it (no increment is lost); each check is one step
\* that reads the entry, decides, and writes the entry back.
C24_LimiterAtomic ==
  /\ [](\A id \in KeyIds :
          LET key == getRateLimitKey(id)
              L == DEFAULT_RATE_LIMITS(api_keys[id].tier).requests
          IN /\ admitted[id] <= L
             /\ (IF key \in DOMAIN rateLimitStore
                 THEN now <= rateLimitStore[key].resetTime ELSE FALSE)
                => rateLimitStore[key].count = admitted[id])
  /\ [][\A s \in Slots :
          (req[s].pc = "tieredRateLimit" /\ req'[s].pc # "tieredRateLimit")
          => LET id == req[s].apiKeyInfo
                 key == getRateLimitKey(id)
                 before == IF (IF key \in DOMAIN rateLimitStore
                               THEN now <= rateLimitStore[key].resetTime
                               ELSE FALSE)
                           THEN rateLimitStore[key].count ELSE 0
             IN /\ \A t \in Slots \ {s} : req'[t] = req[t]
                /\ rateLimitStore'[key].count
                     = before + (IF req'[s].pc = "handler" THEN 1 ELSE 0)]_vars

\* the window is full, the request that took its last place is still in
\* progress, and another request of the same key was rejected meanwhile
C24_Witness ==
  \E s \in Slots, t \in Slots :
    /\ s # t
    /\ req[s].pc = "done" /\ req[s].code = "RATE_LIMIT_EXCEEDED"
    /\ req[t].pc = "handler" /\ req[t].remaining = 0
    /\ req[t].apiKeyInfo = req[s].apiKeyInfo
    /\ admitted[req[s].apiKeyInfo] = FreeRequests

\* C25: for every API key, a step that is not a rollover (apiKeyAuth of a
\* request presenting the key at now > usage_reset_date) never lowers
\* current_usage and leaves usage_reset_date as it was, also when the step
\* completes a request that was admitted before the last rollover; a rollover
\* sets current_usage to 0 and usage_reset_date to a time later than now, so
\* that apiKeyAuth at the same time does not roll over again.
C25_UsageBetweenRollovers ==
  [][\A id \in KeyIds :
       LET rollover == \E s \in Slots :
                         /\ req[s].pc = "apiKeyAuth"
                         /\ req'[s].pc # "apiKeyAuth"
                         /\ extractApiKey(req[s]) = SecretOf(id)
                         /\ api_keys[id].is_active
                         /\ now > api_keys[id].usage_reset_date
       IN IF rollover
          THEN /\ api_keys'[id].current_usage = 0
               /\ api_keys'[id].usage_reset_date > now
               /\ rolloverIfExpired(api_keys'[id], now) = api_keys'[id]
          ELSE /\ api_keys'[id].current_usage >= api_keys[id].current_usage
               /\ api_keys'[id].usage_reset_date
                    = api_keys[id].usage_reset_date]_vars

\* request s opened the limiter window of key 1 before the period was rolled
\* over by request t, and completed with 200 after it: the counter is 1
C25_Witness ==
  \E s \in Slots, t \in Slots :
    LET key == getRateLimitKey(1)
        rolledAt == api_keys[1].usage_reset_date - Month
    IN /\ s # t
       /\ req[t].apiKeyInfo = 1 /\ req[t].rolledFrom >= 0
       /\ req[s].apiKeyInfo = 1 /\ req[s].rolledFrom = -1
       /\ req[s].pc = "done" /\ req[s].status = 200
       /\ served = 2
       /\ api_keys[1].current_usage = 1
       /\ api_keys[1].usage_reset_date > now
       /\ key \in DOMAIN rateLimitStore
       /\ rateLimitStore[key].count = 2
       /\ rateLimitStore[key].resetTime - Window < rolledAt

\* C26: whichever statement of logRequest fails, the request ends with the
\* status and code its stage chose and with one response sent: apiKeyAuth
\* answers 401 MISSING_API_KEY, 401 INVALID_API_KEY or 429
\* USAGE_LIMIT_EXCEEDED, the limiter 429 RATE_LIMIT_EXCEEDED, a handler 400
\* MISSING_ADDRESS or 200, and a completed geocode call 200 or 500
\* GEOCODING_ERROR, never an error raised by logging. When the INSERT fails,
\* no row is added and current_usage is unchanged; when the UPDATE fails
\* (it is run for a status below 400), the row is added and current_usage is
\* unchanged.
C26_LoggingBestEffort ==
  [][\A s \in Slots :
       (req[s].pc # "done" /\ req'[s].pc = "done")
       => LET r == req[s]
              reply == <<req'[s].status, req'[s].code>>
              usageSame == \A id \in KeyIds :
                             api_keys'[id].current_usage
                               = api_keys[id].current_usage
          IN /\ req'[s].sendAttempts = 1
             /\ r.pc \in {"idle", "apiKeyAuth"}
                => reply \in {<<429, "Too Many Requests">>,
                              <<401, "MISSING_API_KEY">>,
                              <<401, "INVALID_API_KEY">>,
                              <<429, "USAGE_LIMIT_EXCEEDED">>}
             /\ r.pc = "tieredRateLimit"
                => reply = <<429, "RATE_LIMIT_EXCEEDED">>
             /\ r.pc = "handler"
                => /\ reply \in {<<400, "MISSING_ADDRESS">>, <<200, "">>}
                   /\ req'[s].statusCode = req'[s].status
             /\ r.pc = "external"
                => /\ reply \in {<<200, "">>, <<500, "GEOCODING_ERROR">>}
                   /\ req'[s].statusCode = req'[s].status
             /\ fault = "logInsert"
                => request_logs'[s] = request_logs[s] /\ usageSame
             /\ fault = "usageUpdate"
                => /\ usageSame
                   /\ (r.pc \in {"handler", "external"}
                        /\ req'[s].status < 400)
                      => request_logs'[s]
                           = Append(request_logs[s],
                                    [api_key_id |-> req'[s].apiKeyInfo,
                                     response_status |-> req'[s].status])]_vars

\* a request of key 1 was answered 200 while the INSERT of its log row
\* failed: no row, and the counter still 0
C26_Witness ==
  /\ req[1].pc = "done" /\ req[1].status = 200 /\ req[1].sendAttempts = 1
  /\ req[1].apiKeyInfo = 1
  /\ fault = "logInsert"
  /\ request_logs[1] = <<>>
  /\ api_keys[1].current_usage = 0

\* C31 (as claimed): when GET /v1/usage reports remaining = r for a key, a
\* tieredRateLimit check made for that key at the same instant is admitted
\* if and only if r > 0, and an admitted check leaves r - 1 remaining, also
\* when the key's stored window has expired.
C31_StatusAgrees ==
  [][\A s \in Slots :
       (/\ req[s].pc = "handler" /\ req[s].endpoint = "usage"
        /\ req'[s].pc = "done")
       => LET id == req[s].apiKeyInfo
              check == isWithinRateLimit(rateLimitStore, getRateLimitKey(id),
                                         api_keys[id].tier, now)
              r == req'[s].rateLimit.remaining
          IN /\ check.allowed <=> r > 0
             /\ check.allowed => check.remaining = r - 1]_vars

\* C33: getRateLimitStatus returns with the rate-limit store as it found it,
\* for every key and every reachable store, and no step of a GET /v1/usage
\* request (which has no tieredRateLimit hook) changes the store or the
\* number of checks admitted in the key's window.
C33_StatusReadOnly ==
  /\ [](\A id \in KeyIds :
          getRateLimitStatus(rateLimitStore, getRateLimitKey(id),
                             api_keys[id].tier, now).store = rateLimitStore)
  /\ [][\A s \in Slots :
          (req[s].endpoint = "usage" /\ req[s].pc \notin {"idle", "done"})
          => /\ rateLimitStore' = rateLimitStore
             /\ admitted' = admitted
             /\ req'[s].pc # "tieredRateLimit"
             /\ ~req'[s].reachedLimiter]_vars

\* GET /v1/usage was answered 200 in a live window in which some but not all
\* places are taken, and none was taken by it
C33_Witness ==
  \E s \in Slots :
    LET key == getRateLimitKey(req[s].apiKeyInfo)
    IN /\ req[s].pc = "done" /\ req[s].endpoint = "usage"
       /\ req[s].status = 200
       /\ key \in DOMAIN rateLimitStore
       /\ now <= rateLimitStore[key].resetTime
       /\ rateLimitStore[key].count = 2
       /\ req[s].rateLimit.remaining = FreeRequests - 2
       /\ admitted[req[s].apiKeyInfo] = 2

\* C32: whether or not a check purges first, it is allowed or rejected, and
\* reports the remaining count and leaves the key's entry (count and
\* resetTime), exactly as isWithinRateLimit decides on the store without a
\* purge; a purge removes no entry of a live window and changes no entry it
\* keeps, and an entry it removes is one the next check of its key would
\* replace anyway.
C32_PurgeUnobservable ==
  /\ [](\A id \in KeyIds :
          LET key == getRateLimitKey(id)
              tier == api_keys[id].tier
              plain == isWithinRateLimit(rateLimitStore, key, tier, now)
              purged == isWithinRateLimit(
                          cleanExpiredEntries(rateLimitStore, now),
                          key, tier, now)
          IN /\ purged.allowed = plain.allowed
             /\ purged.remaining = plain.remaining
             /\ purged.resetTime = plain.resetTime
             /\ purged.store[key] = plain.store[key])
  /\ [][\A s \in Slots :
          (req[s].pc = "tieredRateLimit" /\ req'[s].pc # "tieredRateLimit")
          => LET id == req[s].apiKeyInfo
                 key == getRateLimitKey(id)
                 plain == isWithinRateLimit(rateLimitStore, key,
                                            api_keys[id].tier, now)
             IN /\ (req'[s].pc = "handler") = plain.allowed
                /\ req'[s].remaining = plain.remaining
                /\ rateLimitStore'[key] = plain.store[key]
                /\ \A k \in DOMAIN rateLimitStore \ {key} :
                     IF now <= rateLimitStore[k].resetTime
                     THEN IF k \in DOMAIN rateLimitStore'
                          THEN rateLimitStore'[k] = rateLimitStore[k]
                          ELSE FALSE
                     ELSE IF k \in DOMAIN rateLimitStore'
                          THEN rateLimitStore'[k] = rateLimitStore[k]
                          ELSE TRUE
                /\ DOMAIN rateLimitStore' \subseteq
                     DOMAIN rateLimitStore \cup {key}]_vars

\* the expired entry of key 2 was purged by a check of key 1, whose own
\* window is live and was not opened by that check
C32_Witness ==
  /\ admitted[2] >= 1
  /\ getRateLimitKey(2) \notin DOMAIN rateLimitStore
  /\ getRateLimitKey(1) \in DOMAIN rateLimitStore
  /\ rateLimitStore[getRateLimitKey(1)].count >= 2
  /\ now <= rateLimitStore[getRateLimitKey(1)].resetTime
  /\ req[1].pc = "handler" /\ req[1].apiKeyInfo = 1

\* C34: clearRateLimit(id) leaves the store without an entry for api_key:id
\* and with every other entry as it was, and returns the store unchanged
\* when the key has no entry; a step that clears a limiter changes nothing
\* else, and the next check of a key without an entry is admitted and opens
\* a window with count 1.
C34_ClearRateLimit ==
  /\ [](\A id \in KeyIds :
          LET key == getRateLimitKey(id)
              cleared == clearRateLimit(rateLimitStore, id)
          IN /\ DOMAIN cleared = DOMAIN rateLimitStore \ {key}
             /\ \A k \in DOMAIN cleared : cleared[k] = rateLimitStore[k]
             /\ key \notin DOMAIN rateLimitStore => cleared = rateLimitStore)
  /\ [][/\ (req' = req /\ now' = now /\ rateLimitStore' # rateLimitStore)
           => \E id \in KeyIds :
                /\ getRateLimitKey(id) \in DOMAIN rateLimitStore
                /\ DOMAIN rateLimitStore'
                     = DOMAIN rateLimitStore \ {getRateLimitKey(id)}
                /\ \A k \in DOMAIN rateLimitStore' :
                     rateLimitStore'[k] = rateLimitStore[k]
                /\ api_keys' = api_keys /\ request_logs' = request_logs
        /\ \A s \in Slots :
             (/\ req[s].pc = "tieredRateLimit"
              /\ req'[s].pc # "tieredRateLimit"
              /\ getRateLimitKey(req[s].apiKeyInfo)
                   \notin DOMAIN rateLimitStore)
             => /\ req'[s].pc = "handler"
                /\ rateLimitStore'[getRateLimitKey(req[s].apiKeyInfo)]
                     = [count |-> 1, resetTime |-> now + Window]]_vars

\* the second request of key 1 within one window found no entry, the first
\* one's having been cleared, and opened a window with count 1, while the
\* entry of key 2 is as its request left it
C34_Witness ==
  /\ now < Window
  /\ IF SecretOf(1) \in DOMAIN globalStore
     THEN globalStore[SecretOf(1)].current >= 2 ELSE FALSE
  /\ req[1].pc = "handler" /\ req[1].apiKeyInfo = 1
  /\ req[1].remaining = FreeRequests - 1
  /\ getRateLimitKey(1) \in DOMAIN rateLimitStore
  /\ rateLimitStore[getRateLimitKey(1)]
       = [count |-> 1, resetTime |-> now + Window]
  /\ getRateLimitKey(2) \in DOMAIN rateLimitStore
  /\ rateLimitStore[getRateLimitKey(2)].count = 1

\* C35 (as claimed): a geocode call whose primary candidate is encoded
\* returns, whatever the encoder makes of the other candidates; the
\* alternatives of its response are at most MaxAlternatives entries, namely
\* those of the candidates ranked 2nd to 4th that the encoder can encode, in
\* ranking order, and every listed entry carries a grid code.
C35_Alternatives ==
  (/\ last.op = "geocode" /\ ~last.hit
   /\ trim(last.input.address) # <<>> /\ ~last.svc.threw
   /\ (IF Len(last.svc.results) > 0
       THEN IsGridCode(getDIGIPINFromLatLon(last.svc.results[1]))
       ELSE FALSE))
  => /\ last.ok
     /\ LET results == last.svc.results
            ranked == SubSeq(results, 2,
                             IF Len(results) < 1 + MaxAlternatives
                             THEN Len(results) ELSE 1 + MaxAlternatives)
            encodable(p) == IsGridCode(getDIGIPINFromLatLon(p))
            listed == IF "alternatives" \in DOMAIN last.response
                      THEN last.response.alternatives ELSE <<>>
        IN /\ Len(listed) <= MaxAlternatives
           /\ [i \in 1..Len(listed) |-> listed[i].coordinates]
                = SelectSeq(ranked, encodable)
           /\ \A i \in 1..Len(listed) : IsGridCode(listed[i].digipin)

C37_BatchCountsOnce ==
  [][\A s \in Slots :
       (req[s].endpoint = "batch" /\ req[s].pc \notin {"idle", "done"})
       => LET id == req[s].apiKeyInfo
              key == getRateLimitKey(id)
              usageSame == \A k \in KeyIds :
                             api_keys'[k].current_usage
                               = api_keys[k].current_usage
          IN /\ (req[s].pc = "external" /\ req'[s].pc = "done"
                 /\ req'[s].status = 200)
                => /\ api_keys'[id].current_usage
                        = api_keys[id].current_usage + 1
                   /\ \A k \in KeyIds \ {id} :
                        api_keys'[k].current_usage = api_keys[k].current_usage
                   /\ rateLimitStore' = rateLimitStore
                   /\ last'.op = "batchGeocode"
                   /\ last'.response.totalProcessed = req[s].addresses
             /\ req[s].pc # "external" => usageSame
             /\ req[s].pc # "tieredRateLimit"
                => rateLimitStore' = rateLimitStore
             /\ (req[s].pc = "tieredRateLimit" /\ req'[s].pc = "handler")
                => rateLimitStore'[key].count
                     = 1 + (IF key \in DOMAIN rateLimitStore
                            THEN rateLimitStore[key].count ELSE 0)]_vars

\* a batch of two addresses, one resolved and one failed, was answered 200:
\* the counter is 1 and the window holds 1
C37_Witness ==
  /\ req[1].pc = "done" /\ req[1].endpoint = "batch" /\ req[1].status = 200
  /\ req[1].addresses = 2
  /\ last.op = "batchGeocode" /\ last.ok
  /\ last.response.successCount = 1 /\ last.response.errorCount = 1
  /\ served = 1
  /\ api_keys[1].current_usage = 1
  /\ rateLimitStore[getRateLimitKey(1)].count = 1

\* C39: after any sequence of setCachedResult, getCachedResult and
\* clearExpiredCache calls on one model instance the in-process value map and
\* the expiry map have exactly the same key set: no value is without an expiry
\* and no expiry is without a value.
C39_SameKeySet == DOMAIN cache = DOMAIN cacheExpiry

\* clearExpiredCache has just removed an expired entry while another entry,
\* still live, remains in both maps
C39_Witness ==
  /\ last.op = "clearExpiredCache"
  /\ last.removed # {}
  /\ DOMAIN cache # {}
  /\ DOMAIN cache = DOMAIN cacheExpiry

\* what a caller and the geocoding service see of an operation's outcome,
\* and the two in-process maps it leaves
Visible(r) ==
  [x \in (DOMAIN r \ {"m"}) \cup {"cache", "cacheExpiry"} |->
     IF x = "cache" THEN r.m.cache
     ELSE IF x = "cacheExpiry" THEN r.m.cacheExpiry ELSE r[x]]

\* the model instance over another table
WithTable(T) == [Model EXCEPT !.digipin_cache = T]

\* C38: the durable table is write-only on the request path. In every
\* reachable state, each of geocode, coordinatesToDigiPin, reverseGeocode,
\* validate and batchGeocode, run with any input over any other contents of
\* digipin_cache, gives the same response or error, makes the same call to the
\* geocoding service and leaves the same in-process maps; two runs that differ
\* only in the table therefore agree step after step.
C38_TableWriteOnly ==
  \A T \in InitialTables \ {digipin_cache} :
    /\ \A a \in DurableAddresses, svc \in DurableServices :
         /\ Visible(geocode(WithTable(T), GeocodeRequest(a), svc, now))
              = Visible(geocode(Model, GeocodeRequest(a), svc, now))
         /\ Visible(batchGeocode(WithTable(T), <<GeocodeRequest(a)>>,
                                 <<svc>>, now))
              = Visible(batchGeocode(Model, <<GeocodeRequest(a)>>,
                                     <<svc>>, now))
    /\ \A p \in ({"p1"}) :
         Visible(coordinatesToDigiPin(WithTable(T), CoordinatesRequest(p),
                                      now))
           = Visible(coordinatesToDigiPin(Model, CoordinatesRequest(p), now))
    /\ \A rsvc \in ({"No address found", "address"}) :
         Visible(reverseGeocode(WithTable(T), decoder,
                                ReverseGeocodeRequest(Code6), rsvc, now))
           = Visible(reverseGeocode(Model, decoder,
                                    ReverseGeocodeRequest(Code6), rsvc, now))
    /\ \A digipin \in ({Code6}) :
         Visible(validate(WithTable(T), decoder, digipin, now))
           = Visible(validate(Model, decoder, digipin, now))

\* the table holds an unexpired row for the address with another answer, and
\* the geocode call just made went to the service and answered from it
C38_Witness ==
  /\ last.op = "geocode"
  /\ last.ok /\ last.called /\ ~last.hit
  /\ keyOfCall(last) \in DOMAIN digipin_cache
  /\ last.at <= digipin_cache[keyOfCall(last)].expires_at
  /\ digipin_cache[keyOfCall(last)].output_data # last.response

====
